---- MODULE Spec2Model ----
(***************************************************************************)
(* Model of the Jetstream WebSocket client (internal/indexer/client.go):   *)
(* the reconnection driver Client.Run, connect, readLoop, close,           *)
(* computeBackoff and the concurrent observer IsConnected.                 *)
(*                                                                         *)
(* Durations are whole ticks of time.Duration; the configurations count    *)
(* the tick as a microsecond so that products stay within 32 bits.         *)
(* rand.Float64() is a draw r/RandDen with r in 0..RandDen-1;              *)
(* Config.JitterFactor is held in percent.                                 *)
(*                                                                         *)
(* A second part models the web client's theme: ThemeProvider              *)
(* (components/ThemeProvider.tsx), DarkModeToggle and the theme store.     *)
(* A third part models the search hook (hooks/useSearch.ts) and the        *)
(* SearchBar component that uses it (components/SearchBar.tsx).            *)
(* Two pure functions, EnforceLocationConsent (internal/scene) and         *)
(* RoundGeohash (package geo), have a specification each.                  *)
(***************************************************************************)
EXTENDS Integers, Sequences, FiniteSets, TLC

\* ---------------------------------------------------------------- bounds
\* largest value the attempt counter reaches (dial failures in a row)
MaxAttempts == 6
\* number of driver events the observation window keeps
HistLen == 7
\* number of Run calls made on the client
MaxRuns == 2
\* granularity of the random source: rand.Float64() is r/RandDen
RandDen == 4
\* largest attempt count handed to the backoff calculator on its own
MaxCalcAttempt == 8
\* number of messages the peer sends on one connection
MaxMsgs == 2
\* number of system colour-scheme changes in a row
MaxSysChanges == 4
\* longest debounce delay, in ticks
MaxDebounce == 2
\* number of search() calls
MaxCalls == 3
\* number of EnforceLocationConsent calls on one Scene or Event
MaxEnforce == 2
\* longest geohash string given to RoundGeohash
MaxGeoLen == 3
\* largest precision given to RoundGeohash
MaxPrecision == 4
\* scaled number formats of the backoff arithmetic: width in bits of
\* time.Duration (64 in Go), of the float64 significand (53 in Go), and
\* the exponent at which a float64 overflows (1024 in Go)
IntBits == 8
MantBits == 4
FloatExp == 12
\* largest number of consecutive dial failures in the scaled arithmetic
MaxEdgeAttempt == 14

\* ------------------------------------------------------- configurations
\* Validated configurations the client is constructed with
\* (BaseDelay <= MaxDelay, JitterFactor >= 0).
Configs ==
    { [BaseDelay |-> 100000, MaxDelay |-> 1600000, JitterFactor |-> 0],
      [BaseDelay |-> 100000, MaxDelay |-> 200000,  JitterFactor |-> 50] }

\* Configurations that Config.Validate rejects.
InvalidConfigs ==
    { [BaseDelay |-> 200000, MaxDelay |-> 100000, JitterFactor |-> 0],
      [BaseDelay |-> 100000, MaxDelay |-> 200000, JitterFactor |-> -50] }

\* Config.Validate: base delay <= max delay and jitter fraction >= 0
Validate(c) == c.BaseDelay <= c.MaxDelay /\ c.JitterFactor >= 0

\* Validated configurations the backoff calculator is exercised with.
CalcConfigs ==
    { [BaseDelay |-> 100000, MaxDelay |-> 1600000, JitterFactor |-> 0],
      [BaseDelay |-> 1000,   MaxDelay |-> 2000,    JitterFactor |-> 50],
      [BaseDelay |-> 3,      MaxDelay |-> 20,      JitterFactor |-> 50],
      [BaseDelay |-> 1000,   MaxDelay |-> 1000,    JitterFactor |-> 100] }

ScenarioA == [BaseDelay |-> 100000, MaxDelay |-> 1600000, JitterFactor |-> 0]

NoConn == "nil"
Handle == "conn"

CtxErrs == {"context canceled", "context deadline exceeded"}

\* positions at which the goroutine executing Run is blocked
Blocking == {"dialing", "backoff", "reading", "handler"}

Events == {"dial", "dialFail", "wait", "dialOk", "readErr", "handlerErr",
           "readLoopCancelled", "stop"}

VARIABLES
    config,          \* Client.config
    hasHandler,      \* Client.handler != nil
    mu,              \* Client.mu: "free", "driver" or "observer"
    conn,            \* Client.conn: NoConn or Handle
    isConnected,     \* Client.isConnected
    reconnectCount,  \* Client.reconnectCount
    pc,              \* position of the goroutine executing Run; "new"
                     \* before NewClient, "rejected" if it returned an error
    closeRet,        \* where the running close() returns to
    ctxErr,          \* ctx.Err(): "nil" until the context is done
    delay,           \* the delay computed by the last computeBackoff
    result,          \* value returned by Run ("none" while running)
    runs,            \* number of Run calls so far
    openConns,       \* transport connections opened and not yet closed
    peer,            \* remote end: "none", "silent", "msg", "closed"
    obs,             \* position of the goroutine calling IsConnected
    obsVal,          \* value IsConnected is returning
    hist,            \* the last HistLen driver events of this Run call
    consecFails,     \* dial failures since the last successful dial
    lastWait,        \* with jitter disabled: the last wait since the last
                     \* successful dial, 0 if none
    attempt,         \* attempt count the last computeBackoff read
    cancelAt,        \* where the driver was when the context was cancelled
    inbox,           \* messages sent on the connection and not yet read
    sent,            \* number of messages sent on the connection
    msg,             \* message ReadMessage returned to the handler, 0 if none
    lastHandled,     \* last message of the connection given to the handler
    closeErr,        \* the last c.conn.Close() reported an error
    theme,           \* theme store: "light" or "dark"
    storedTheme,     \* localStorage item 'subcults-theme', "null" if absent
    systemDark,      \* matchMedia('(prefers-color-scheme: dark)').matches
    mounted,         \* ThemeProvider is mounted, its listener registered
    manual,          \* the user has selected a theme (and not cleared it)
    sysChanges,      \* system changes since the last other theme event
    debounceMs,      \* useSearch option: the debounce delay, in ticks
    query,           \* useSearch state
    results,         \* useSearch state: per category, the query whose hits
                     \* are shown, "" for an empty list
    loading,         \* useSearch state
    error,           \* useSearch state: "null" or a message
    debounceTimeout, \* pending timer: its query and the ticks left
    abortController, \* abortControllerRef: index in requests, 0 for null
    requests,        \* the API requests made: query, aborted, settled
    hookMounted,     \* the component using useSearch is mounted
    lastCall,        \* query of the last search() call
    lastExec,        \* query of the last executeSearch() run
    execs,           \* executeSearch() runs since the last search() call
    elapsed,         \* ticks since the last search() call, up to debounceMs
    cleared,         \* clear() was called and search() not since
    calls,           \* number of search() calls made
    burst,           \* search() calls made in a row, each with the timer
                     \* of the previous one still running
    inputValue,      \* SearchBar state: the text of the input
    isOpen,          \* SearchBar state: the dropdown is open
    selectedIndex,   \* SearchBar state: index of the highlighted result
    lastKey,         \* ghost: the SearchBar handler that ran last
    scene,           \* a Scene
    event,           \* an Event
    sceneOrig,       \* the Scene as constructed
    eventOrig,       \* the Event as constructed
    sceneBefore,     \* the Scene before the last EnforceLocationConsent
    eventBefore,     \* the Event before the last EnforceLocationConsent
    sceneCalls,      \* EnforceLocationConsent calls made on the Scene
    eventCalls,      \* EnforceLocationConsent calls made on the Event
    geoInput,        \* RoundGeohash: input
    geoPrecision,    \* RoundGeohash: precision
    geoOutput,       \* RoundGeohash: the string returned
    geoDone          \* RoundGeohash has returned

clientVars == <<config, hasHandler, mu, conn, isConnected, reconnectCount>>
runVars    == <<pc, closeRet, ctxErr, delay, result, runs>>
envVars    == <<openConns, peer>>
obsVars    == <<obs, obsVal>>
ghostVars  == <<hist, consecFails, lastWait, attempt, cancelAt>>
msgVars    == <<inbox, sent, msg, lastHandled>>
themeVars  == <<theme, storedTheme, systemDark, mounted, manual, sysChanges>>
indexerVars == <<clientVars, runVars, envVars, obsVars, ghostVars, msgVars,
                 closeErr>>
searchVars == <<debounceMs, query, results, loading, error, debounceTimeout,
                abortController, requests, hookMounted, lastCall, lastExec,
                execs, elapsed, cleared, calls, burst>>
consentVars == <<scene, event, sceneOrig, eventOrig, sceneBefore, eventBefore,
                 sceneCalls, eventCalls>>
geoVars == <<geoInput, geoPrecision, geoOutput, geoDone>>
barVars == <<inputValue, isOpen, selectedIndex, lastKey>>
vars == <<indexerVars, themeVars, searchVars, barVars, consentVars, geoVars>>

\* a nil pointer
Nil == <<>>

\* no Scene or Event is being handled
ConsentIdle ==
    /\ scene = [AllowPrecise |-> FALSE, PrecisePoint |-> Nil,
                CoarseGeohash |-> "dr5regw"]
    /\ event = scene
    /\ sceneOrig = scene
    /\ eventOrig = scene
    /\ sceneBefore = scene
    /\ eventBefore = scene
    /\ sceneCalls = 0
    /\ eventCalls = 0

\* RoundGeohash is not being called
GeoIdle ==
    /\ geoInput = <<>>
    /\ geoPrecision = 0
    /\ geoOutput = <<>>
    /\ geoDone = FALSE

\* the web client is not running
ThemeIdle ==
    /\ theme = "light"
    /\ storedTheme = "null"
    /\ systemDark = FALSE
    /\ mounted = FALSE
    /\ manual = FALSE
    /\ sysChanges = 0

\* SearchBar as first rendered
BarIdle ==
    /\ inputValue = ""
    /\ isOpen = FALSE
    /\ selectedIndex = -1
    /\ lastKey = "none"

\* no component uses the search hook
SearchIdle ==
    /\ debounceMs = 1
    /\ query = ""
    /\ results = [scenes |-> "", events |-> "", posts |-> ""]
    /\ loading = FALSE
    /\ error = "null"
    /\ debounceTimeout = [q |-> "none", left |-> 0]
    /\ abortController = 0
    /\ requests = <<>>
    /\ hookMounted = FALSE
    /\ lastCall = "none"
    /\ lastExec = "none"
    /\ execs = 0
    /\ elapsed = 0
    /\ cleared = FALSE
    /\ calls = 0
    /\ burst = 0
    /\ BarIdle

\* ------------------------------------------------------------- helpers
Min(a, b) == IF a < b THEN a ELSE b

RECURSIVE Pow2(_)
Pow2(n) == IF n = 0 THEN 1 ELSE 2 * Pow2(n - 1)

Push(h, e) == IF Len(h) < HistLen THEN Append(h, e) ELSE Append(Tail(h), e)

\* ------------------------------------------------------ computeBackoff
\* variant: the cap at MaxDelay is missing
CappedBackoff_Uncapped(c, n) == c.BaseDelay * Pow2(n)

\* baseDelay * 2^attempts, capped at MaxDelay
CappedBackoff(c, n) ==
    LET backoff == c.BaseDelay * Pow2(n)
    IN  IF backoff > c.MaxDelay THEN c.MaxDelay ELSE backoff

\* variant: the jitter spans JitterFactor on each side
ApplyJitter_FullRange(c, backoff, r) ==
    IF c.JitterFactor > 0
    THEN (backoff * (100 * RandDen + (2 * r - RandDen) * c.JitterFactor))
             \div (100 * RandDen)
    ELSE backoff

\* backoff * (1 + (rand - 0.5) * JitterFactor), truncated by time.Duration
ApplyJitter(c, backoff, r) ==
    IF c.JitterFactor > 0
    THEN (backoff * (200 * RandDen + (2 * r - RandDen) * c.JitterFactor))
             \div (200 * RandDen)
    ELSE backoff

\* variant: the delay is computed after the increment of reconnectCount
computeBackoff_PostIncrement(c, n, r) ==
    ApplyJitter(c, CappedBackoff(c, n + 1), r)

computeBackoff(c, n, r) == ApplyJitter(c, CappedBackoff(c, n), r)

\* random draws that matter for configuration c
Draws(c) == IF c.JitterFactor > 0 THEN 0 .. (RandDen - 1) ELSE {0}

\* ---------------------------------------------------------------- Init
Init ==
    /\ config \in Configs \cup InvalidConfigs
    /\ hasHandler \in BOOLEAN
    /\ mu = "free"
    /\ conn = NoConn
    /\ isConnected = FALSE
    /\ reconnectCount = 0
    /\ pc = "new"
    /\ closeRet = "none"
    /\ ctxErr = "nil"
    /\ delay = 0
    /\ result = "none"
    /\ runs = 0
    /\ openConns = 0
    /\ peer = "none"
    /\ obs = "out"
    /\ obsVal = FALSE
    /\ hist = <<>>
    /\ consecFails = 0
    /\ lastWait = 0
    /\ attempt = -1
    /\ cancelAt = "none"
    /\ inbox = <<>>
    /\ sent = 0
    /\ msg = 0
    /\ lastHandled = 0
    /\ closeErr = FALSE
    /\ ThemeIdle
    /\ SearchIdle
    /\ ConsentIdle
    /\ GeoIdle

\* ----------------------------------------------------------- NewClient
\* variant: the client is built whatever Validate returns
NewClient_IgnoresValidation ==
    /\ pc = "new"
    /\ pc' = "idle"
    /\ UNCHANGED <<clientVars, closeRet, ctxErr, delay, result, runs,
                   envVars, obsVars, ghostVars>>
    /\ UNCHANGED msgVars
    /\ UNCHANGED themeVars
    /\ UNCHANGED searchVars
    /\ UNCHANGED <<consentVars, geoVars>>
    /\ UNCHANGED closeErr
    /\ UNCHANGED barVars

\* if err := config.Validate(); err != nil { return nil, err }
\* return &Client{...}, nil
NewClient ==
    /\ pc = "new"
    /\ pc' = IF Validate(config) THEN "idle" ELSE "rejected"
    /\ UNCHANGED <<clientVars, closeRet, ctxErr, delay, result, runs,
                   envVars, obsVars, ghostVars>>
    /\ UNCHANGED msgVars
    /\ UNCHANGED themeVars
    /\ UNCHANGED searchVars
    /\ UNCHANGED <<consentVars, geoVars>>
    /\ UNCHANGED closeErr
    /\ UNCHANGED barVars

\* ----------------------------------------------------------------- Run
\* The caller invokes Run(ctx); ctx may already be done.
RunCall ==
    /\ pc \in {"idle", "returned"}
    /\ runs < MaxRuns
    /\ runs' = runs + 1
    /\ \E e \in CtxErrs \cup {"nil"} :
          /\ ctxErr' = e
          /\ cancelAt' = IF e = "nil" THEN "none" ELSE "before"
    /\ pc' = "loop"
    /\ result' = "none"
    /\ hist' = <<>>
    /\ UNCHANGED <<clientVars, closeRet, delay, envVars, obsVars,
                   consecFails, lastWait, attempt>>
    /\ UNCHANGED msgVars
    /\ UNCHANGED themeVars
    /\ UNCHANGED searchVars
    /\ UNCHANGED <<consentVars, geoVars>>
    /\ UNCHANGED closeErr
    /\ UNCHANGED barVars

\* The context is cancelled (or its deadline passes) while Run executes.
Cancel ==
    /\ pc \notin {"new", "rejected", "idle", "returned"}
    /\ ctxErr = "nil"
    /\ \E e \in CtxErrs : ctxErr' = e
    /\ cancelAt' = IF pc \in Blocking THEN pc ELSE "running"
    /\ UNCHANGED <<clientVars, pc, closeRet, delay, result, runs, envVars,
                   obsVars, hist, consecFails, lastWait, attempt>>
    /\ UNCHANGED msgVars
    /\ UNCHANGED themeVars
    /\ UNCHANGED searchVars
    /\ UNCHANGED <<consentVars, geoVars>>
    /\ UNCHANGED closeErr
    /\ UNCHANGED barVars

\* variant: cancellation also interrupts a running handler
LoopCancelled_Preempts ==
    /\ pc \in {"loop", "handler"}
    /\ ctxErr # "nil"
    /\ pc' = "cl_lock"
    /\ closeRet' = "run_return"
    /\ UNCHANGED <<clientVars, ctxErr, delay, result, runs, envVars,
                   obsVars, ghostVars>>
    /\ UNCHANGED msgVars
    /\ UNCHANGED themeVars
    /\ UNCHANGED searchVars
    /\ UNCHANGED <<consentVars, geoVars>>
    /\ UNCHANGED closeErr
    /\ UNCHANGED barVars

\* variant: Run returns on cancellation without calling close
LoopCancelled_NoClose ==
    /\ pc = "loop"
    /\ ctxErr # "nil"
    /\ pc' = "run_return"
    /\ UNCHANGED <<clientVars, closeRet, ctxErr, delay, result, runs,
                   envVars, obsVars, ghostVars>>
    /\ UNCHANGED msgVars
    /\ UNCHANGED themeVars
    /\ UNCHANGED searchVars
    /\ UNCHANGED <<consentVars, geoVars>>
    /\ UNCHANGED closeErr
    /\ UNCHANGED barVars

\* for { select { case <-ctx.Done(): c.close(); return ctx.Err() ...
LoopCancelled ==
    /\ pc = "loop"
    /\ ctxErr # "nil"
    /\ pc' = "cl_lock"
    /\ closeRet' = "run_return"
    /\ UNCHANGED <<clientVars, ctxErr, delay, result, runs, envVars,
                   obsVars, ghostVars>>
    /\ UNCHANGED msgVars
    /\ UNCHANGED themeVars
    /\ UNCHANGED searchVars
    /\ UNCHANGED <<consentVars, geoVars>>
    /\ UNCHANGED closeErr
    /\ UNCHANGED barVars

\* variant: the driver dials without the loop-entry check
LoopDial_Unchecked ==
    /\ pc = "loop"
    /\ pc' = "dialing"
    /\ hist' = Push(hist, "dial")
    /\ UNCHANGED <<clientVars, closeRet, ctxErr, delay, result, runs,
                   envVars, obsVars, consecFails, lastWait,
                   attempt, cancelAt>>
    /\ UNCHANGED msgVars
    /\ UNCHANGED themeVars
    /\ UNCHANGED searchVars
    /\ UNCHANGED <<consentVars, geoVars>>
    /\ closeErr' = FALSE
    /\ UNCHANGED barVars

\* ... default: } then connect(ctx) calls dialer.DialContext
LoopDial ==
    /\ pc = "loop"
    /\ ctxErr = "nil"
    /\ pc' = "dialing"
    /\ hist' = Push(hist, "dial")
    /\ UNCHANGED <<clientVars, closeRet, ctxErr, delay, result, runs,
                   envVars, obsVars, consecFails, lastWait,
                   attempt, cancelAt>>
    /\ UNCHANGED msgVars
    /\ UNCHANGED themeVars
    /\ UNCHANGED searchVars
    /\ UNCHANGED <<consentVars, geoVars>>
    /\ closeErr' = FALSE
    /\ UNCHANGED barVars

\* return ctx.Err() after c.close()
RunReturn ==
    /\ pc = "run_return"
    /\ result' = ctxErr
    /\ pc' = "returned"
    /\ hist' = Push(hist, "stop")
    /\ UNCHANGED <<clientVars, closeRet, ctxErr, delay, runs, envVars,
                   obsVars, consecFails, lastWait, attempt,
                   cancelAt>>
    /\ UNCHANGED msgVars
    /\ UNCHANGED themeVars
    /\ UNCHANGED searchVars
    /\ UNCHANGED <<consentVars, geoVars>>
    /\ closeErr' = FALSE
    /\ UNCHANGED barVars

\* variant: the failure is not counted
DialFail_NotCounted ==
    /\ pc = "dialing"
    /\ reconnectCount < MaxAttempts
    /\ \E r \in Draws(config) :
          delay' = computeBackoff(config, reconnectCount, r)
    /\ attempt' = reconnectCount
    /\ reconnectCount' = reconnectCount
    /\ lastWait' = IF config.JitterFactor = 0 THEN delay' ELSE 0
    /\ consecFails' = consecFails + 1
    /\ hist' = Push(Push(hist, "dialFail"), "wait")
    /\ pc' = "backoff"
    /\ UNCHANGED <<config, hasHandler, mu, conn, isConnected, closeRet,
                   ctxErr, result, runs, envVars, obsVars, cancelAt>>
    /\ UNCHANGED msgVars
    /\ UNCHANGED themeVars
    /\ UNCHANGED searchVars
    /\ UNCHANGED <<consentVars, geoVars>>
    /\ UNCHANGED closeErr
    /\ UNCHANGED barVars

\* variant: a failed connect leaves the connected flag set
DialFail_SetsFlag ==
    /\ pc = "dialing"
    /\ reconnectCount < MaxAttempts
    /\ \E r \in Draws(config) :
          delay' = computeBackoff(config, reconnectCount, r)
    /\ attempt' = reconnectCount
    /\ reconnectCount' = reconnectCount + 1
    /\ lastWait' = IF config.JitterFactor = 0 THEN delay' ELSE 0
    /\ consecFails' = consecFails + 1
    /\ hist' = Push(Push(hist, "dialFail"), "wait")
    /\ pc' = "backoff"
    /\ isConnected' = TRUE
    /\ UNCHANGED <<config, hasHandler, mu, conn, closeRet,
                   ctxErr, result, runs, envVars, obsVars, cancelAt>>
    /\ UNCHANGED msgVars
    /\ UNCHANGED themeVars
    /\ UNCHANGED searchVars
    /\ UNCHANGED <<consentVars, geoVars>>
    /\ UNCHANGED closeErr
    /\ UNCHANGED barVars

\* DialContext fails: connect returns err; Run computes the delay from the
\* current reconnectCount, increments it and enters the backoff select.
DialFail ==
    /\ pc = "dialing"
    /\ reconnectCount < MaxAttempts
    /\ \E r \in Draws(config) :
          delay' = computeBackoff(config, reconnectCount, r)
    /\ attempt' = reconnectCount
    /\ reconnectCount' = reconnectCount + 1
    /\ lastWait' = IF config.JitterFactor = 0 THEN delay' ELSE 0
    /\ consecFails' = consecFails + 1
    /\ hist' = Push(Push(hist, "dialFail"), "wait")
    /\ pc' = "backoff"
    /\ UNCHANGED <<config, hasHandler, mu, conn, isConnected, closeRet,
                   ctxErr, result, runs, envVars, obsVars, cancelAt>>
    /\ UNCHANGED msgVars
    /\ UNCHANGED themeVars
    /\ UNCHANGED searchVars
    /\ UNCHANGED <<consentVars, geoVars>>
    /\ UNCHANGED closeErr
    /\ UNCHANGED barVars

\* select { case <-ctx.Done(): return ctx.Err()
BackoffCancelled ==
    /\ pc = "backoff"
    /\ ctxErr # "nil"
    /\ result' = ctxErr
    /\ pc' = "returned"
    /\ delay' = 0
    /\ attempt' = -1
    /\ hist' = Push(hist, "stop")
    /\ UNCHANGED <<clientVars, closeRet, ctxErr, runs, envVars,
                   obsVars, consecFails, lastWait, cancelAt>>
    /\ UNCHANGED msgVars
    /\ UNCHANGED themeVars
    /\ UNCHANGED searchVars
    /\ UNCHANGED <<consentVars, geoVars>>
    /\ UNCHANGED closeErr
    /\ UNCHANGED barVars

\* variant: the driver gives up after three attempts
BackoffElapsed_GivesUp ==
    /\ pc = "backoff"
    /\ reconnectCount < 3
    /\ pc' = "loop"
    /\ delay' = 0
    /\ attempt' = -1
    /\ UNCHANGED <<clientVars, closeRet, ctxErr, result, runs, envVars,
                   obsVars, hist, consecFails, lastWait, cancelAt>>
    /\ UNCHANGED msgVars
    /\ UNCHANGED themeVars
    /\ UNCHANGED searchVars
    /\ UNCHANGED <<consentVars, geoVars>>
    /\ UNCHANGED closeErr
    /\ UNCHANGED barVars

\* variant: after the wait the driver dials without the loop-entry check
BackoffElapsed_SkipsCheck ==
    /\ pc = "backoff"
    /\ pc' = "dialing"
    /\ delay' = 0
    /\ attempt' = -1
    /\ hist' = Push(hist, "dial")
    /\ UNCHANGED <<clientVars, closeRet, ctxErr, result, runs, envVars,
                   obsVars, consecFails, lastWait, cancelAt>>
    /\ UNCHANGED msgVars
    /\ UNCHANGED themeVars
    /\ UNCHANGED searchVars
    /\ UNCHANGED <<consentVars, geoVars>>
    /\ UNCHANGED closeErr
    /\ UNCHANGED barVars

\* case <-time.After(delay): continue }
BackoffElapsed ==
    /\ pc = "backoff"
    /\ pc' = "loop"
    /\ delay' = 0
    /\ attempt' = -1
    /\ UNCHANGED <<clientVars, closeRet, ctxErr, result, runs, envVars,
                   obsVars, hist, consecFails, lastWait,
                   cancelAt>>
    /\ UNCHANGED msgVars
    /\ UNCHANGED themeVars
    /\ UNCHANGED searchVars
    /\ UNCHANGED <<consentVars, geoVars>>
    /\ UNCHANGED closeErr
    /\ UNCHANGED barVars

\* ------------------------------------------------------------- connect
\* DialContext succeeds: a transport connection is open.
DialOk ==
    /\ pc = "dialing"
    /\ openConns' = openConns + 1
    /\ peer' = "silent"
    /\ inbox' = <<>>
    /\ sent' = 0
    /\ lastHandled' = 0
    /\ UNCHANGED msg
    /\ hist' = Push(hist, "dialOk")
    /\ consecFails' = 0
    /\ lastWait' = 0
    /\ pc' = "c_lock"
    /\ UNCHANGED <<clientVars, closeRet, ctxErr, delay, result, runs,
                   obsVars, attempt, cancelAt>>
    /\ UNCHANGED themeVars
    /\ UNCHANGED searchVars
    /\ UNCHANGED <<consentVars, geoVars>>
    /\ UNCHANGED closeErr
    /\ UNCHANGED barVars

\* variant: connect installs the handle without taking the lock
ConnectLock_NotTaken ==
    /\ pc = "c_lock"
    /\ pc' = "c_conn"
    /\ UNCHANGED <<clientVars, closeRet, ctxErr, delay, result, runs,
                   envVars, obsVars, ghostVars>>
    /\ UNCHANGED msgVars
    /\ UNCHANGED themeVars
    /\ UNCHANGED searchVars
    /\ UNCHANGED <<consentVars, geoVars>>
    /\ UNCHANGED closeErr
    /\ UNCHANGED barVars

\* c.mu.Lock()
ConnectLock ==
    /\ pc = "c_lock"
    /\ mu = "free"
    /\ mu' = "driver"
    /\ pc' = "c_conn"
    /\ UNCHANGED <<config, hasHandler, conn, isConnected, reconnectCount,
                   closeRet, ctxErr, delay, result, runs, envVars, obsVars,
                   ghostVars>>
    /\ UNCHANGED msgVars
    /\ UNCHANGED themeVars
    /\ UNCHANGED searchVars
    /\ UNCHANGED <<consentVars, geoVars>>
    /\ UNCHANGED closeErr
    /\ UNCHANGED barVars

\* c.conn = conn
ConnectSetConn ==
    /\ pc = "c_conn"
    /\ conn' = Handle
    /\ pc' = "c_flag"
    /\ UNCHANGED <<config, hasHandler, mu, isConnected, reconnectCount,
                   closeRet, ctxErr, delay, result, runs, envVars, obsVars,
                   ghostVars>>
    /\ UNCHANGED msgVars
    /\ UNCHANGED themeVars
    /\ UNCHANGED searchVars
    /\ UNCHANGED <<consentVars, geoVars>>
    /\ UNCHANGED closeErr
    /\ UNCHANGED barVars

\* variant: connect installs the handle without setting the flag
ConnectSetFlag_Skipped ==
    /\ pc = "c_flag"
    /\ UNCHANGED isConnected
    /\ pc' = "c_unlock"
    /\ UNCHANGED <<config, hasHandler, mu, conn, reconnectCount,
                   closeRet, ctxErr, delay, result, runs, envVars, obsVars,
                   ghostVars>>
    /\ UNCHANGED msgVars
    /\ UNCHANGED themeVars
    /\ UNCHANGED searchVars
    /\ UNCHANGED <<consentVars, geoVars>>
    /\ UNCHANGED closeErr
    /\ UNCHANGED barVars

\* c.isConnected = true
ConnectSetFlag ==
    /\ pc = "c_flag"
    /\ isConnected' = TRUE
    /\ pc' = "c_unlock"
    /\ UNCHANGED <<config, hasHandler, mu, conn, reconnectCount,
                   closeRet, ctxErr, delay, result, runs, envVars, obsVars,
                   ghostVars>>
    /\ UNCHANGED msgVars
    /\ UNCHANGED themeVars
    /\ UNCHANGED searchVars
    /\ UNCHANGED <<consentVars, geoVars>>
    /\ UNCHANGED closeErr
    /\ UNCHANGED barVars

\* variant: connect returns without unlocking
ConnectUnlock_Forgotten ==
    /\ pc = "c_unlock"
    /\ pc' = "reset"
    /\ UNCHANGED <<clientVars, closeRet, ctxErr, delay, result, runs,
                   envVars, obsVars, ghostVars>>
    /\ UNCHANGED msgVars
    /\ UNCHANGED themeVars
    /\ UNCHANGED searchVars
    /\ UNCHANGED <<consentVars, geoVars>>
    /\ UNCHANGED closeErr
    /\ UNCHANGED barVars

\* c.mu.Unlock(); return nil
ConnectUnlock ==
    /\ pc = "c_unlock"
    /\ mu' = "free"
    /\ pc' = "reset"
    /\ UNCHANGED <<config, hasHandler, conn, isConnected, reconnectCount,
                   closeRet, ctxErr, delay, result, runs, envVars, obsVars,
                   ghostVars>>
    /\ UNCHANGED msgVars
    /\ UNCHANGED themeVars
    /\ UNCHANGED searchVars
    /\ UNCHANGED <<consentVars, geoVars>>
    /\ UNCHANGED closeErr
    /\ UNCHANGED barVars

\* variant: the counter is not reset after a successful connection
ResetCount_Skipped ==
    /\ pc = "reset"
    /\ pc' = "rl_check"
    /\ UNCHANGED <<clientVars, closeRet, ctxErr, delay, result, runs,
                   envVars, obsVars, ghostVars>>
    /\ UNCHANGED msgVars
    /\ UNCHANGED themeVars
    /\ UNCHANGED searchVars
    /\ UNCHANGED <<consentVars, geoVars>>
    /\ UNCHANGED closeErr
    /\ UNCHANGED barVars

\* c.reconnectCount = 0; c.readLoop(ctx)
ResetCount ==
    /\ pc = "reset"
    /\ reconnectCount' = 0
    /\ pc' = "rl_check"
    /\ UNCHANGED <<config, hasHandler, mu, conn, isConnected, closeRet,
                   ctxErr, delay, result, runs, envVars, obsVars, ghostVars>>
    /\ UNCHANGED msgVars
    /\ UNCHANGED themeVars
    /\ UNCHANGED searchVars
    /\ UNCHANGED <<consentVars, geoVars>>
    /\ UNCHANGED closeErr
    /\ UNCHANGED barVars

\* ------------------------------------------------------------ readLoop
\* select { case <-ctx.Done(): return
ReadLoopCancelled ==
    /\ pc = "rl_check"
    /\ ctxErr # "nil"
    /\ pc' = "loop"
    /\ hist' = Push(hist, "readLoopCancelled")
    /\ UNCHANGED <<clientVars, closeRet, ctxErr, delay, result, runs,
                   envVars, obsVars, consecFails, lastWait,
                   attempt, cancelAt>>
    /\ UNCHANGED msgVars
    /\ UNCHANGED themeVars
    /\ UNCHANGED searchVars
    /\ UNCHANGED <<consentVars, geoVars>>
    /\ UNCHANGED closeErr
    /\ UNCHANGED barVars

\* variant: the read loop reads without looking at ctx.Done()
ReadStart_Unchecked ==
    /\ pc = "rl_check"
    /\ pc' = "reading"
    /\ UNCHANGED <<clientVars, closeRet, ctxErr, delay, result, runs,
                   envVars, obsVars, ghostVars>>
    /\ UNCHANGED msgVars
    /\ UNCHANGED themeVars
    /\ UNCHANGED searchVars
    /\ UNCHANGED <<consentVars, geoVars>>
    /\ UNCHANGED closeErr
    /\ UNCHANGED barVars

\* default: } c.conn.ReadMessage() is called and blocks
ReadStart ==
    /\ pc = "rl_check"
    /\ ctxErr = "nil"
    /\ pc' = "reading"
    /\ UNCHANGED <<clientVars, closeRet, ctxErr, delay, result, runs,
                   envVars, obsVars, ghostVars>>
    /\ UNCHANGED msgVars
    /\ UNCHANGED themeVars
    /\ UNCHANGED searchVars
    /\ UNCHANGED <<consentVars, geoVars>>
    /\ UNCHANGED closeErr
    /\ UNCHANGED barVars

\* variant: the message is handed over but stays at the head of the queue
ReadMsgOk_Peeks ==
    /\ pc = "reading"
    /\ peer = "msg"
    /\ msg' = IF hasHandler THEN Head(inbox) ELSE 0
    /\ lastHandled' = IF hasHandler THEN Head(inbox) ELSE lastHandled
    /\ pc' = IF hasHandler THEN "handler" ELSE "rl_check"
    /\ UNCHANGED <<clientVars, closeRet, ctxErr, delay, result, runs,
                   envVars, obsVars, ghostVars, inbox, sent>>
    /\ UNCHANGED themeVars
    /\ UNCHANGED searchVars
    /\ UNCHANGED <<consentVars, geoVars>>
    /\ UNCHANGED closeErr
    /\ UNCHANGED barVars

\* variant: the handler is called without the nil check
ReadMsgOk_CallsNilHandler ==
    /\ pc = "reading"
    /\ peer = "msg"
    /\ inbox' = Tail(inbox)
    /\ peer' = IF Tail(inbox) = <<>> THEN "silent" ELSE "msg"
    /\ msg' = Head(inbox)
    /\ lastHandled' = Head(inbox)
    /\ UNCHANGED sent
    /\ pc' = "handler"
    /\ UNCHANGED <<clientVars, closeRet, ctxErr, delay, result, runs,
                   openConns, obsVars, ghostVars>>
    /\ UNCHANGED themeVars
    /\ UNCHANGED searchVars
    /\ UNCHANGED <<consentVars, geoVars>>
    /\ UNCHANGED closeErr
    /\ UNCHANGED barVars

\* ReadMessage returns a message; the handler, if any, is called with it
ReadMsgOk ==
    /\ pc = "reading"
    /\ peer = "msg"
    /\ inbox' = Tail(inbox)
    /\ peer' = IF Tail(inbox) = <<>> THEN "silent" ELSE "msg"
    /\ msg' = IF hasHandler THEN Head(inbox) ELSE 0
    /\ lastHandled' = IF hasHandler THEN Head(inbox) ELSE lastHandled
    /\ UNCHANGED sent
    /\ pc' = IF hasHandler THEN "handler" ELSE "rl_check"
    /\ UNCHANGED <<clientVars, closeRet, ctxErr, delay, result, runs,
                   openConns, obsVars, ghostVars>>
    /\ UNCHANGED themeVars
    /\ UNCHANGED searchVars
    /\ UNCHANGED <<consentVars, geoVars>>
    /\ UNCHANGED closeErr
    /\ UNCHANGED barVars

\* variant: a read error is followed by a backoff wait
ReadMsgErr_BacksOff ==
    /\ pc = "reading"
    /\ peer = "closed"
    /\ pc' = "cl_lock"
    /\ closeRet' = "backoff"
    /\ delay' = computeBackoff(config, reconnectCount, 0)
    /\ hist' = Push(Push(hist, "readErr"), "wait")
    /\ UNCHANGED <<clientVars, ctxErr, result, runs, envVars, obsVars,
                   consecFails, lastWait, attempt, cancelAt>>
    /\ UNCHANGED msgVars
    /\ UNCHANGED themeVars
    /\ UNCHANGED searchVars
    /\ UNCHANGED <<consentVars, geoVars>>
    /\ UNCHANGED closeErr
    /\ UNCHANGED barVars

\* variant: a read error returns to the driver without closing
ReadMsgErr_NoClose ==
    /\ pc = "reading"
    /\ peer = "closed"
    /\ pc' = "loop"
    /\ UNCHANGED closeRet
    /\ hist' = Push(hist, "readErr")
    /\ UNCHANGED <<clientVars, ctxErr, delay, result, runs, envVars,
                   obsVars, consecFails, lastWait, attempt,
                   cancelAt>>
    /\ UNCHANGED msgVars
    /\ UNCHANGED themeVars
    /\ UNCHANGED searchVars
    /\ UNCHANGED <<consentVars, geoVars>>
    /\ UNCHANGED closeErr
    /\ UNCHANGED barVars

\* variant: a read error makes Run return it
ReadMsgErr_Propagates ==
    /\ pc = "reading"
    /\ peer = "closed"
    /\ pc' = "cl_lock"
    /\ closeRet' = "run_return"
    /\ hist' = Push(hist, "readErr")
    /\ ctxErr' = "read error"
    /\ UNCHANGED <<clientVars, delay, result, runs, envVars,
                   obsVars, consecFails, lastWait, attempt,
                   cancelAt>>
    /\ UNCHANGED msgVars
    /\ UNCHANGED themeVars
    /\ UNCHANGED searchVars
    /\ UNCHANGED <<consentVars, geoVars>>
    /\ UNCHANGED closeErr
    /\ UNCHANGED barVars

\* ReadMessage returns an error: c.close(); return
ReadMsgErr ==
    /\ pc = "reading"
    /\ peer = "closed"
    /\ pc' = "cl_lock"
    /\ closeRet' = "loop"
    /\ hist' = Push(hist, "readErr")
    /\ UNCHANGED <<clientVars, ctxErr, delay, result, runs, envVars,
                   obsVars, consecFails, lastWait, attempt,
                   cancelAt>>
    /\ UNCHANGED msgVars
    /\ UNCHANGED themeVars
    /\ UNCHANGED searchVars
    /\ UNCHANGED <<consentVars, geoVars>>
    /\ UNCHANGED closeErr
    /\ UNCHANGED barVars

\* the handler returns nil: next iteration of the read loop
HandlerOk ==
    /\ pc = "handler"
    /\ pc' = "rl_check"
    /\ msg' = 0
    /\ UNCHANGED <<inbox, sent, lastHandled>>
    /\ UNCHANGED <<clientVars, closeRet, ctxErr, delay, result, runs,
                   envVars, obsVars, ghostVars>>
    /\ UNCHANGED themeVars
    /\ UNCHANGED searchVars
    /\ UNCHANGED <<consentVars, geoVars>>
    /\ UNCHANGED closeErr
    /\ UNCHANGED barVars

\* variant: the handler's error is returned from Run
HandlerErr_Returned ==
    /\ pc = "handler"
    /\ pc' = "returned"
    /\ result' = "handler error"
    /\ hist' = Push(hist, "handlerErr")
    /\ UNCHANGED <<clientVars, closeRet, ctxErr, delay, runs, envVars,
                   obsVars, consecFails, lastWait, attempt, cancelAt>>
    /\ UNCHANGED msgVars
    /\ UNCHANGED themeVars
    /\ UNCHANGED searchVars
    /\ UNCHANGED <<consentVars, geoVars>>
    /\ UNCHANGED closeErr
    /\ UNCHANGED barVars

\* variant: the handler's error is logged and the read loop goes on
HandlerErr_Continues ==
    /\ pc = "handler"
    /\ pc' = "rl_check"
    /\ hist' = Push(hist, "handlerErr")
    /\ UNCHANGED <<clientVars, closeRet, ctxErr, delay, result, runs,
                   envVars, obsVars, consecFails, lastWait, attempt,
                   cancelAt>>
    /\ UNCHANGED msgVars
    /\ UNCHANGED themeVars
    /\ UNCHANGED searchVars
    /\ UNCHANGED <<consentVars, geoVars>>
    /\ UNCHANGED closeErr
    /\ UNCHANGED barVars

\* variant: after a handler error the read loop closes and reads on
HandlerErr_ClosesAndContinues ==
    /\ pc = "handler"
    /\ pc' = "cl_lock"
    /\ msg' = 0
    /\ UNCHANGED <<inbox, sent, lastHandled>>
    /\ closeRet' = "rl_check"
    /\ hist' = Push(hist, "handlerErr")
    /\ UNCHANGED <<clientVars, ctxErr, delay, result, runs, envVars,
                   obsVars, consecFails, lastWait, attempt,
                   cancelAt>>
    /\ UNCHANGED themeVars
    /\ UNCHANGED searchVars
    /\ UNCHANGED <<consentVars, geoVars>>
    /\ UNCHANGED closeErr
    /\ UNCHANGED barVars

\* the handler returns an error: c.close(); return
HandlerErr ==
    /\ pc = "handler"
    /\ pc' = "cl_lock"
    /\ msg' = 0
    /\ UNCHANGED <<inbox, sent, lastHandled>>
    /\ closeRet' = "loop"
    /\ hist' = Push(hist, "handlerErr")
    /\ UNCHANGED <<clientVars, ctxErr, delay, result, runs, envVars,
                   obsVars, consecFails, lastWait, attempt,
                   cancelAt>>
    /\ UNCHANGED themeVars
    /\ UNCHANGED searchVars
    /\ UNCHANGED <<consentVars, geoVars>>
    /\ UNCHANGED closeErr
    /\ UNCHANGED barVars

\* --------------------------------------------------------------- close
\* c.mu.Lock(); defer c.mu.Unlock()
CloseLock ==
    /\ pc = "cl_lock"
    /\ mu = "free"
    /\ mu' = "driver"
    /\ pc' = "cl_body"
    /\ UNCHANGED <<config, hasHandler, conn, isConnected, reconnectCount,
                   closeRet, ctxErr, delay, result, runs, envVars, obsVars,
                   ghostVars>>
    /\ UNCHANGED msgVars
    /\ UNCHANGED themeVars
    /\ UNCHANGED searchVars
    /\ UNCHANGED <<consentVars, geoVars>>
    /\ UNCHANGED closeErr
    /\ UNCHANGED barVars

\* variant: close keeps the handle when closing the transport fails
CloseBody_KeepsOnError ==
    /\ pc = "cl_body"
    /\ IF conn # NoConn
       THEN /\ openConns' = openConns - 1
            /\ peer' = "none"
            /\ closeErr' \in BOOLEAN
            /\ conn' = IF closeErr' THEN conn ELSE NoConn
            /\ inbox' = <<>>
            /\ sent' = 0
            /\ lastHandled' = 0
       ELSE UNCHANGED <<openConns, peer, conn, inbox, sent, lastHandled,
                        closeErr>>
    /\ UNCHANGED msg
    /\ pc' = "cl_flag"
    /\ UNCHANGED <<config, hasHandler, mu, isConnected, reconnectCount,
                   closeRet, ctxErr, delay, result, runs, obsVars, ghostVars>>
    /\ UNCHANGED themeVars
    /\ UNCHANGED searchVars
    /\ UNCHANGED <<consentVars, geoVars>>
    /\ UNCHANGED barVars

\* if c.conn != nil { _ = c.conn.Close(); c.conn = nil }
CloseBody ==
    /\ pc = "cl_body"
    /\ IF conn # NoConn
       THEN /\ openConns' = openConns - 1
            /\ peer' = "none"
            /\ conn' = NoConn
            /\ inbox' = <<>>
            /\ sent' = 0
            /\ lastHandled' = 0
            /\ closeErr' \in BOOLEAN
       ELSE UNCHANGED <<openConns, peer, conn, inbox, sent, lastHandled,
                        closeErr>>
    /\ UNCHANGED msg
    /\ pc' = "cl_flag"
    /\ UNCHANGED <<config, hasHandler, mu, isConnected, reconnectCount,
                   closeRet, ctxErr, delay, result, runs, obsVars, ghostVars>>
    /\ UNCHANGED themeVars
    /\ UNCHANGED searchVars
    /\ UNCHANGED <<consentVars, geoVars>>
    /\ UNCHANGED barVars

\* variant: close leaves the connected flag as it is
CloseFlag_Skipped ==
    /\ pc = "cl_flag"
    /\ UNCHANGED isConnected
    /\ pc' = "cl_unlock"
    /\ UNCHANGED <<config, hasHandler, mu, conn, reconnectCount, closeRet,
                   ctxErr, delay, result, runs, envVars, obsVars, ghostVars>>
    /\ UNCHANGED msgVars
    /\ UNCHANGED themeVars
    /\ UNCHANGED searchVars
    /\ UNCHANGED <<consentVars, geoVars>>
    /\ UNCHANGED closeErr
    /\ UNCHANGED barVars

\* c.isConnected = false
CloseFlag ==
    /\ pc = "cl_flag"
    /\ isConnected' = FALSE
    /\ pc' = "cl_unlock"
    /\ UNCHANGED <<config, hasHandler, mu, conn, reconnectCount, closeRet,
                   ctxErr, delay, result, runs, envVars, obsVars, ghostVars>>
    /\ UNCHANGED msgVars
    /\ UNCHANGED themeVars
    /\ UNCHANGED searchVars
    /\ UNCHANGED <<consentVars, geoVars>>
    /\ UNCHANGED closeErr
    /\ UNCHANGED barVars

\* the deferred c.mu.Unlock(); close returns to its caller
CloseUnlock ==
    /\ pc = "cl_unlock"
    /\ mu' = "free"
    /\ pc' = closeRet
    /\ closeRet' = "none"
    /\ UNCHANGED <<config, hasHandler, conn, isConnected, reconnectCount,
                   ctxErr, delay, result, runs, envVars, obsVars, ghostVars>>
    /\ UNCHANGED msgVars
    /\ UNCHANGED themeVars
    /\ UNCHANGED searchVars
    /\ UNCHANGED <<consentVars, geoVars>>
    /\ UNCHANGED closeErr
    /\ UNCHANGED barVars

\* ------------------------------------------------------------ the peer
\* the remote end sends the next message on the open connection
PeerSend ==
    /\ peer \in {"silent", "msg"}
    /\ sent < MaxMsgs
    /\ sent' = sent + 1
    /\ inbox' = Append(inbox, sent + 1)
    /\ peer' = "msg"
    /\ UNCHANGED <<msg, lastHandled>>
    /\ UNCHANGED <<clientVars, runVars, openConns, obsVars, ghostVars>>
    /\ UNCHANGED themeVars
    /\ UNCHANGED searchVars
    /\ UNCHANGED <<consentVars, geoVars>>
    /\ UNCHANGED closeErr
    /\ UNCHANGED barVars

\* the remote end closes the connection or the transport fails; what was
\* in flight is lost
PeerClose ==
    /\ peer \in {"silent", "msg"}
    /\ peer' = "closed"
    /\ inbox' = <<>>
    /\ UNCHANGED <<sent, msg, lastHandled>>
    /\ UNCHANGED <<clientVars, runVars, openConns, obsVars, ghostVars>>
    /\ UNCHANGED themeVars
    /\ UNCHANGED searchVars
    /\ UNCHANGED <<consentVars, geoVars>>
    /\ UNCHANGED closeErr
    /\ UNCHANGED barVars

\* --------------------------------------------------------- IsConnected
\* another goroutine calls IsConnected() and reaches c.mu.Lock()
ObsCall ==
    /\ obs = "out"
    /\ obs' = "waiting"
    /\ UNCHANGED <<clientVars, runVars, envVars, obsVal, ghostVars>>
    /\ UNCHANGED msgVars
    /\ UNCHANGED themeVars
    /\ UNCHANGED searchVars
    /\ UNCHANGED <<consentVars, geoVars>>
    /\ UNCHANGED closeErr
    /\ UNCHANGED barVars

\* c.mu.Lock() succeeds; c.isConnected is read for the return value
ObsLock ==
    /\ obs = "waiting"
    /\ mu = "free"
    /\ mu' = "observer"
    /\ obsVal' = isConnected
    /\ obs' = "locked"
    /\ UNCHANGED <<config, hasHandler, conn, isConnected, reconnectCount,
                   runVars, envVars, ghostVars>>
    /\ UNCHANGED msgVars
    /\ UNCHANGED themeVars
    /\ UNCHANGED searchVars
    /\ UNCHANGED <<consentVars, geoVars>>
    /\ UNCHANGED closeErr
    /\ UNCHANGED barVars

\* the deferred c.mu.Unlock(); the value is returned to the caller
ObsUnlock ==
    /\ obs = "locked"
    /\ mu' = "free"
    /\ obs' = "out"
    /\ obsVal' = FALSE
    /\ UNCHANGED <<config, hasHandler, conn, isConnected, reconnectCount,
                   runVars, envVars, ghostVars>>
    /\ UNCHANGED msgVars
    /\ UNCHANGED themeVars
    /\ UNCHANGED searchVars
    /\ UNCHANGED <<consentVars, geoVars>>
    /\ UNCHANGED closeErr
    /\ UNCHANGED barVars

\* ---------------------------------------------------------------- Next
Next ==
    \/ NewClient
    \/ RunCall
    \/ Cancel
    \/ LoopCancelled
    \/ LoopDial
    \/ RunReturn
    \/ DialFail
    \/ BackoffCancelled
    \/ BackoffElapsed
    \/ DialOk
    \/ ConnectLock
    \/ ConnectSetConn
    \/ ConnectSetFlag
    \/ ConnectUnlock
    \/ ResetCount
    \/ ReadLoopCancelled
    \/ ReadStart
    \/ ReadMsgOk
    \/ ReadMsgErr
    \/ HandlerOk
    \/ HandlerErr
    \/ CloseLock
    \/ CloseBody
    \/ CloseFlag
    \/ CloseUnlock
    \/ PeerSend
    \/ PeerClose
    \/ ObsCall
    \/ ObsLock
    \/ ObsUnlock

Spec == Init /\ [][Next]_vars

\* ------------------------------------------------------------ fairness
\* steps of Run that neither block nor touch the lock
Progress ==
    \/ LoopCancelled
    \/ LoopDial
    \/ RunReturn
    \/ ResetCount
    \/ ReadLoopCancelled
    \/ ReadStart

\* steps of connect and close made while holding c.mu
CriticalStep ==
    \/ ConnectSetConn
    \/ ConnectSetFlag
    \/ ConnectUnlock
    \/ CloseBody
    \/ CloseFlag
    \/ CloseUnlock

\* sync.Mutex hands the lock to every waiter (starvation mode), and a
\* goroutine holding it runs until it unlocks.
LockFair ==
    /\ WF_vars(CriticalStep)
    /\ SF_vars(ConnectLock)
    /\ SF_vars(CloseLock)
    /\ SF_vars(ObsLock)
    /\ WF_vars(ObsUnlock)

\* Only the lock is fair: a dial, a backoff wait, a read or a handler call
\* may block forever.
LockSpec == Spec /\ LockFair

\* The goroutine executing Run is scheduled; DialContext returns (handshake
\* timeout), ReadMessage returns once a message or an error is there, the
\* handler returns, the backoff select takes its ctx.Done() case.  The
\* timer need not fire, the peer need not send or close.
NoTimerSpec ==
    /\ LockSpec
    /\ WF_vars(Progress)
    /\ WF_vars(DialFail \/ DialOk)
    /\ WF_vars(BackoffCancelled)
    /\ WF_vars(ReadMsgOk \/ ReadMsgErr)
    /\ WF_vars(HandlerOk \/ HandlerErr)

\* ... and the timer of time.After(delay) fires.
FairSpec == NoTimerSpec /\ WF_vars(BackoffElapsed)

\* ------------------------------------------- the backoff calculator alone
\* computeBackoff is a function of the configuration, the attempt counter
\* and the random draw: a client with any validated configuration and any
\* attempt count calls it once.
CalcInit ==
    /\ config \in CalcConfigs
    /\ hasHandler = TRUE
    /\ mu = "free"
    /\ conn = NoConn
    /\ isConnected = FALSE
    /\ reconnectCount \in 0 .. MaxCalcAttempt
    /\ pc = "calc"
    /\ closeRet = "none"
    /\ ctxErr = "nil"
    /\ delay = 0
    /\ result = "none"
    /\ runs = 0
    /\ openConns = 0
    /\ peer = "none"
    /\ obs = "out"
    /\ obsVal = FALSE
    /\ hist = <<>>
    /\ consecFails = 0
    /\ lastWait = 0
    /\ attempt = -1
    /\ cancelAt = "none"
    /\ inbox = <<>>
    /\ sent = 0
    /\ msg = 0
    /\ lastHandled = 0
    /\ closeErr = FALSE
    /\ ThemeIdle
    /\ SearchIdle
    /\ ConsentIdle
    /\ GeoIdle

\* delay := c.computeBackoff()
Compute ==
    /\ pc = "calc"
    /\ \E r \in Draws(config) :
          delay' = computeBackoff(config, reconnectCount, r)
    /\ attempt' = reconnectCount
    /\ pc' = "calc_done"
    /\ UNCHANGED <<clientVars, closeRet, ctxErr, result, runs, envVars,
                   obsVars, hist, consecFails, lastWait, cancelAt>>
    /\ UNCHANGED msgVars
    /\ UNCHANGED themeVars
    /\ UNCHANGED searchVars
    /\ UNCHANGED <<consentVars, geoVars>>
    /\ UNCHANGED closeErr
    /\ UNCHANGED barVars

CalcNext == Compute

CalcSpec == CalcInit /\ [][CalcNext]_vars

\* ------------------------------------- the backoff in machine arithmetic
\* computeBackoff computes in float64 and converts to time.Duration, an
\* int64.  The formats are scaled down (IntBits, MantBits, FloatExp) with
\* their order kept: 2^MantBits < 2^(IntBits-1) < 2^FloatExp.
MaxInt == Pow2(IntBits - 1) - 1

MinInt == -Pow2(IntBits - 1)

Inf == [k |-> "inf", v |-> 0]

NaN == [k |-> "nan", v |-> 0]

RECURSIVE BitLen(_)
BitLen(x) == IF x = 0 THEN 0 ELSE 1 + BitLen(x \div 2)

\* x >= 0 rounded to MantBits significant bits, ties to even
RoundToEven(x) ==
    IF BitLen(x) <= MantBits
    THEN x
    ELSE LET ulp == Pow2(BitLen(x) - MantBits)
             q   == x \div ulp
             r   == x % ulp
             up  == 2 * r > ulp \/ (2 * r = ulp /\ q % 2 = 1)
         IN  (IF up THEN q + 1 ELSE q) * ulp

\* the float nearest to the real x >= 0
Float(x) ==
    LET v == RoundToEven(x)
    IN  IF v >= Pow2(FloatExp) THEN Inf ELSE [k |-> "fin", v |-> v]

\* math.Pow(2, float64(n)) for n >= 0
MathPow2(n) == IF n >= FloatExp THEN Inf ELSE Float(Pow2(n))

\* a * b for a finite and b finite or infinite, both >= 0
FloatMul(a, b) ==
    IF b.k = "inf"
    THEN (IF a.v = 0 THEN NaN ELSE Inf)
    ELSE Float(a.v * b.v)

\* a > b for b finite; false when a is not a number
FloatGt(a, b) ==
    \/ a.k = "inf"
    \/ a.k = "fin" /\ a.v > b.v

\* time.Duration(f): the conversion of a value that does not fit is
\* implementation-dependent; amd64 yields the smallest integer, arm64
\* saturates and yields 0 for not-a-number.
ToDuration(f) ==
    CASE f.k = "nan" -> {MinInt, 0}
      [] f.k = "inf" -> {MinInt, MaxInt}
      [] OTHER       -> IF f.v <= MaxInt THEN {f.v} ELSE {MinInt, MaxInt}

\* computeBackoff with JitterFactor = 0: the set of values it can return
computeBackoffFloat(c, n) ==
    LET backoff == FloatMul(Float(c.BaseDelay), MathPow2(n))
        capped  == IF FloatGt(backoff, Float(c.MaxDelay))
                   THEN Float(c.MaxDelay)
                   ELSE backoff
    IN  ToDuration(capped)

\* validated configurations without jitter, up to the largest Duration
EdgeConfigs ==
    { c \in [BaseDelay : {0, 1, 3},
             MaxDelay : {0, 5, 20, Pow2(MantBits) + 1, MaxInt - 1, MaxInt},
             JitterFactor : {0}] : Validate(c) }

EdgeInit ==
    /\ config \in EdgeConfigs
    /\ hasHandler = TRUE
    /\ mu = "free"
    /\ conn = NoConn
    /\ isConnected = FALSE
    /\ reconnectCount = 0
    /\ pc = "dialing"
    /\ closeRet = "none"
    /\ ctxErr = "nil"
    /\ delay = 0
    /\ result = "none"
    /\ runs = 1
    /\ openConns = 0
    /\ peer = "none"
    /\ obs = "out"
    /\ obsVal = FALSE
    /\ hist = <<>>
    /\ consecFails = 0
    /\ lastWait = 0
    /\ attempt = -1
    /\ cancelAt = "none"
    /\ inbox = <<>>
    /\ sent = 0
    /\ msg = 0
    /\ lastHandled = 0
    /\ closeErr = FALSE
    /\ ThemeIdle
    /\ SearchIdle
    /\ ConsentIdle
    /\ GeoIdle

\* one pass of the loop of Run in which the dial fails: the delay is
\* computed, the counter incremented, and the wait elapses
DialFailWait ==
    /\ pc = "dialing"
    /\ reconnectCount < MaxEdgeAttempt
    /\ delay' \in computeBackoffFloat(config, reconnectCount)
    /\ attempt' = reconnectCount
    /\ reconnectCount' = reconnectCount + 1
    /\ consecFails' = consecFails + 1
    /\ lastWait' = delay
    /\ UNCHANGED <<config, hasHandler, mu, conn, isConnected, pc, closeRet,
                   ctxErr, result, runs, envVars, obsVars, hist, cancelAt>>
    /\ UNCHANGED msgVars
    /\ UNCHANGED themeVars
    /\ UNCHANGED searchVars
    /\ UNCHANGED <<consentVars, geoVars>>
    /\ UNCHANGED closeErr
    /\ UNCHANGED barVars

EdgeNext == DialFailWait

EdgeSpec == EdgeInit /\ [][EdgeNext]_vars

\* ============================================================ the theme
Pref(dark) == IF dark THEN "dark" ELSE "light"

Other(t) == IF t = "dark" THEN "light" ELSE "dark"

\* themeStore.setTheme: sets the theme and persists it to localStorage
SetTheme(t) ==
    /\ theme' = t
    /\ storedTheme' = t

\* themeStore.initializeTheme: the stored theme if there is one, else the
\* system preference, which is not persisted
InitializeTheme ==
    /\ theme' = IF storedTheme # "null" THEN storedTheme
                ELSE Pref(systemDark)
    /\ UNCHANGED storedTheme

\* ThemeProvider.handleChange(e): auto-switch only when nothing is stored
HandleChange(matches) ==
    IF storedTheme = "null"
    THEN SetTheme(Pref(matches))
    ELSE UNCHANGED <<theme, storedTheme>>

\* No client of the indexer exists in the browser.
IndexerOff ==
    /\ config = ScenarioA
    /\ hasHandler = TRUE
    /\ mu = "free"
    /\ conn = NoConn
    /\ isConnected = FALSE
    /\ reconnectCount = 0
    /\ pc = "off"
    /\ closeRet = "none"
    /\ ctxErr = "nil"
    /\ delay = 0
    /\ result = "none"
    /\ runs = 0
    /\ openConns = 0
    /\ peer = "none"
    /\ obs = "out"
    /\ obsVal = FALSE
    /\ hist = <<>>
    /\ consecFails = 0
    /\ lastWait = 0
    /\ attempt = -1
    /\ cancelAt = "none"
    /\ inbox = <<>>
    /\ sent = 0
    /\ msg = 0
    /\ lastHandled = 0
    /\ closeErr = FALSE

\* The page is loaded: localStorage holds a theme selected in an earlier
\* visit or nothing, the system prefers dark or light.
ThemeInit ==
    /\ IndexerOff
    /\ theme = "light"
    /\ storedTheme \in {"null", "light", "dark"}
    /\ manual = (storedTheme # "null")
    /\ systemDark \in BOOLEAN
    /\ mounted = FALSE
    /\ sysChanges = 0
    /\ SearchIdle
    /\ ConsentIdle
    /\ GeoIdle

\* ThemeProvider's effect runs: initializeTheme() and the registration of
\* handleChange on the media query
Mount ==
    /\ ~mounted
    /\ InitializeTheme
    /\ mounted' = TRUE
    /\ sysChanges' = 0
    /\ UNCHANGED <<systemDark, manual>>
    /\ UNCHANGED indexerVars
    /\ UNCHANGED searchVars
    /\ UNCHANGED <<consentVars, geoVars>>
    /\ UNCHANGED barVars

\* the effect's cleanup removes the listener
Unmount ==
    /\ mounted
    /\ mounted' = FALSE
    /\ sysChanges' = 0
    /\ UNCHANGED <<theme, storedTheme, systemDark, manual>>
    /\ UNCHANGED indexerVars
    /\ UNCHANGED searchVars
    /\ UNCHANGED <<consentVars, geoVars>>
    /\ UNCHANGED barVars

\* the system colour scheme changes; the media query fires 'change' and
\* the registered handleChange runs
SystemChange ==
    /\ sysChanges < MaxSysChanges
    /\ sysChanges' = sysChanges + 1
    /\ systemDark' = ~systemDark
    /\ IF mounted
       THEN HandleChange(systemDark')
       ELSE UNCHANGED <<theme, storedTheme>>
    /\ UNCHANGED <<mounted, manual>>
    /\ UNCHANGED indexerVars
    /\ UNCHANGED searchVars
    /\ UNCHANGED <<consentVars, geoVars>>
    /\ UNCHANGED barVars

\* the user clicks DarkModeToggle: toggleTheme() sets and persists the
\* other theme
UserToggle ==
    /\ SetTheme(Other(theme))
    /\ manual' = TRUE
    /\ sysChanges' = 0
    /\ UNCHANGED <<systemDark, mounted>>
    /\ UNCHANGED indexerVars
    /\ UNCHANGED searchVars
    /\ UNCHANGED <<consentVars, geoVars>>
    /\ UNCHANGED barVars

\* localStorage is cleared
ClearStorage ==
    /\ storedTheme # "null"
    /\ storedTheme' = "null"
    /\ manual' = FALSE
    /\ sysChanges' = 0
    /\ UNCHANGED <<theme, systemDark, mounted>>
    /\ UNCHANGED indexerVars
    /\ UNCHANGED searchVars
    /\ UNCHANGED <<consentVars, geoVars>>
    /\ UNCHANGED barVars

ThemeNext ==
    \/ Mount
    \/ Unmount
    \/ SystemChange
    \/ UserToggle
    \/ ClearStorage

ThemeSpec == ThemeInit /\ [][ThemeNext]_vars

TypeOK ==
    /\ config \in Configs \cup InvalidConfigs
    /\ mu \in {"free", "driver", "observer"}
    /\ conn \in {NoConn, Handle}
    /\ isConnected \in BOOLEAN
    /\ reconnectCount \in 0 .. MaxAttempts
    /\ ctxErr \in CtxErrs \cup {"nil"}
    /\ result \in CtxErrs \cup {"nil", "none"}
    /\ runs \in 0 .. MaxRuns
    /\ peer \in {"none", "silent", "msg", "closed"}
    /\ closeErr \in BOOLEAN
    /\ Len(hist) <= HistLen
    /\ \A i \in 1 .. Len(hist) : hist[i] \in Events

\* =========================================================== the search
\* hooks/useSearch.ts.  Time is counted in ticks; the queries are two
\* words and a blank one (query.trim() is empty).
Queries == {"a", "b", " "}

Blank(q) == q = " "

NoTimer == [q |-> "none", left |-> 0]

EmptyResults == [scenes |-> "", events |-> "", posts |-> ""]

\* what one API call of a request for q can resolve to: hits for q, or
\* [] (nothing found, or the call failed and .catch(() => []) ran)
Hits(q) == {q, ""}

Abort(reqs, i) ==
    IF i = 0 THEN reqs
    ELSE [reqs EXCEPT ![i].aborted = TRUE]

SearchInit ==
    /\ IndexerOff
    /\ ThemeIdle
    /\ ConsentIdle
    /\ GeoIdle
    /\ debounceMs \in 1..MaxDebounce
    /\ query = ""
    /\ results = EmptyResults
    /\ loading = FALSE
    /\ error = "null"
    /\ debounceTimeout = NoTimer
    /\ abortController = 0
    /\ requests = <<>>
    /\ hookMounted = TRUE
    /\ lastCall = "none"
    /\ lastExec = "none"
    /\ execs = 0
    /\ elapsed = 0
    /\ cleared = FALSE
    /\ calls = 0
    /\ burst = 0
    /\ BarIdle

\* search(newQuery): setQuery, clearTimeout of the pending timer, setTimeout
SearchCall_KeepsTimer ==
    /\ hookMounted
    /\ calls < MaxCalls
    /\ \E newQuery \in Queries :
        /\ query' = newQuery
        /\ debounceTimeout' = IF debounceTimeout = NoTimer
                              THEN [q |-> newQuery, left |-> debounceMs]
                              ELSE debounceTimeout
        /\ lastCall' = newQuery
    /\ calls' = calls + 1
    /\ burst' = IF debounceTimeout # NoTimer /\ debounceTimeout.left > 0
                THEN burst + 1
                ELSE 1
    /\ execs' = 0
    /\ elapsed' = 0
    /\ cleared' = FALSE
    /\ UNCHANGED <<debounceMs, results, loading, error, abortController,
                   requests, hookMounted, lastExec>>
    /\ UNCHANGED <<indexerVars, themeVars>>
    /\ UNCHANGED <<consentVars, geoVars>>
    /\ UNCHANGED barVars

search(newQuery) ==
    /\ query' = newQuery
    /\ debounceTimeout' = [q |-> newQuery, left |-> debounceMs]
    /\ lastCall' = newQuery
    /\ calls' = calls + 1
    /\ burst' = IF debounceTimeout # NoTimer /\ debounceTimeout.left > 0
                THEN burst + 1
                ELSE 1
    /\ execs' = 0
    /\ elapsed' = 0
    /\ cleared' = FALSE
    /\ UNCHANGED <<debounceMs, results, loading, error, abortController,
                   requests, hookMounted, lastExec>>

\* a component calls search()
SearchCall ==
    /\ hookMounted
    /\ calls < MaxCalls
    /\ \E newQuery \in Queries : search(newQuery)
    /\ UNCHANGED <<indexerVars, themeVars>>
    /\ UNCHANGED <<consentVars, geoVars>>
    /\ UNCHANGED barVars

\* one tick of time passes while a timer is pending
Tick ==
    /\ debounceTimeout # NoTimer
    /\ debounceTimeout.left > 0
    /\ debounceTimeout' = [debounceTimeout EXCEPT !.left = @ - 1]
    /\ elapsed' = Min(elapsed + 1, debounceMs)
    /\ UNCHANGED <<debounceMs, query, results, loading, error,
                   abortController, requests, hookMounted, lastCall,
                   lastExec, execs, cleared, calls, burst>>
    /\ UNCHANGED <<indexerVars, themeVars>>
    /\ UNCHANGED <<consentVars, geoVars>>
    /\ UNCHANGED barVars

\* variant: executeSearch does not abort the previous controller
TimerFires_NoAbort ==
    /\ debounceTimeout # NoTimer
    /\ debounceTimeout.left = 0
    /\ debounceTimeout' = NoTimer
    /\ lastExec' = debounceTimeout.q
    /\ execs' = execs + 1
    /\ IF Blank(debounceTimeout.q)
       THEN /\ results' = EmptyResults
            /\ loading' = FALSE
            /\ error' = "null"
            /\ UNCHANGED <<abortController, requests>>
       ELSE /\ requests' = Append(requests,
                                  [query |-> debounceTimeout.q,
                                   aborted |-> FALSE,
                                   settled |-> FALSE])
            /\ abortController' = Len(requests) + 1
            /\ loading' = TRUE
            /\ error' = "null"
            /\ UNCHANGED results
    /\ UNCHANGED <<debounceMs, query, hookMounted, lastCall, elapsed,
                   cleared, calls, burst>>
    /\ UNCHANGED <<indexerVars, themeVars>>
    /\ UNCHANGED <<consentVars, geoVars>>
    /\ UNCHANGED barVars

\* the timer fires: executeSearch(newQuery) up to its await
TimerFires ==
    /\ debounceTimeout # NoTimer
    /\ debounceTimeout.left = 0
    /\ debounceTimeout' = NoTimer
    /\ lastExec' = debounceTimeout.q
    /\ execs' = execs + 1
    /\ IF Blank(debounceTimeout.q)
       THEN /\ results' = EmptyResults
            /\ loading' = FALSE
            /\ error' = "null"
            /\ UNCHANGED <<abortController, requests>>
       ELSE /\ requests' = Append(Abort(requests, abortController),
                                  [query |-> debounceTimeout.q,
                                   aborted |-> FALSE,
                                   settled |-> FALSE])
            /\ abortController' = Len(requests) + 1
            /\ loading' = TRUE
            /\ error' = "null"
            /\ UNCHANGED results
    /\ UNCHANGED <<debounceMs, query, hookMounted, lastCall, elapsed,
                   cleared, calls, burst>>
    /\ UNCHANGED <<indexerVars, themeVars>>
    /\ UNCHANGED <<consentVars, geoVars>>
    /\ UNCHANGED barVars

\* Promise.all resolves for request i: executeSearch continues after await
Response_Unchecked ==
    /\ \E i \in 1..Len(requests) :
        /\ ~requests[i].settled
        /\ requests' = [requests EXCEPT ![i].settled = TRUE]
        /\ \E s \in Hits(requests[i].query),
              e \in Hits(requests[i].query),
              p \in Hits(requests[i].query) :
            /\ results' = [scenes |-> s, events |-> e, posts |-> p]
            /\ loading' = FALSE
            /\ UNCHANGED error
    /\ UNCHANGED <<debounceMs, query, debounceTimeout, abortController,
                   hookMounted, lastCall, lastExec, execs, elapsed,
                   cleared, calls, burst>>
    /\ UNCHANGED <<indexerVars, themeVars>>
    /\ UNCHANGED <<consentVars, geoVars>>
    /\ UNCHANGED barVars

Response ==
    /\ \E i \in 1..Len(requests) :
        /\ ~requests[i].settled
        /\ requests' = [requests EXCEPT ![i].settled = TRUE]
        /\ IF ~requests[i].aborted
           THEN \E s \in Hits(requests[i].query),
                   e \in Hits(requests[i].query),
                   p \in Hits(requests[i].query) :
                    /\ results' = [scenes |-> s, events |-> e, posts |-> p]
                    /\ loading' = FALSE
                    /\ UNCHANGED error
           ELSE UNCHANGED <<results, loading, error>>
    /\ UNCHANGED <<debounceMs, query, debounceTimeout, abortController,
                   hookMounted, lastCall, lastExec, execs, elapsed,
                   cleared, calls, burst>>
    /\ UNCHANGED <<indexerVars, themeVars>>
    /\ UNCHANGED <<consentVars, geoVars>>
    /\ UNCHANGED barVars

\* the try block throws for request i: the catch branch of executeSearch
ResponseThrows ==
    /\ \E i \in 1..Len(requests) :
        /\ ~requests[i].settled
        /\ requests' = [requests EXCEPT ![i].settled = TRUE]
        /\ IF ~requests[i].aborted
           THEN /\ error' = "Search failed"
                /\ loading' = FALSE
                /\ UNCHANGED results
           ELSE UNCHANGED <<results, loading, error>>
    /\ UNCHANGED <<debounceMs, query, debounceTimeout, abortController,
                   hookMounted, lastCall, lastExec, execs, elapsed,
                   cleared, calls, burst>>
    /\ UNCHANGED <<indexerVars, themeVars>>
    /\ UNCHANGED <<consentVars, geoVars>>
    /\ UNCHANGED barVars

\* clear()
Clear_KeepsTimer ==
    /\ hookMounted
    /\ requests' = Abort(requests, abortController)
    /\ UNCHANGED debounceTimeout
    /\ query' = ""
    /\ results' = EmptyResults
    /\ loading' = FALSE
    /\ error' = "null"
    /\ cleared' = TRUE
    /\ UNCHANGED <<debounceMs, abortController, hookMounted, lastCall,
                   lastExec, execs, elapsed, calls, burst>>
    /\ UNCHANGED <<indexerVars, themeVars>>
    /\ UNCHANGED <<consentVars, geoVars>>
    /\ UNCHANGED barVars

clear ==
    /\ requests' = Abort(requests, abortController)
    /\ debounceTimeout' = NoTimer
    /\ query' = ""
    /\ results' = EmptyResults
    /\ loading' = FALSE
    /\ error' = "null"
    /\ cleared' = TRUE
    /\ UNCHANGED <<debounceMs, abortController, hookMounted, lastCall,
                   lastExec, execs, elapsed, calls, burst>>

\* a component calls clear()
Clear ==
    /\ hookMounted
    /\ clear
    /\ UNCHANGED <<indexerVars, themeVars>>
    /\ UNCHANGED <<consentVars, geoVars>>
    /\ UNCHANGED barVars

\* the cleanup of the hook's effect
SearchUnmount ==
    /\ hookMounted
    /\ hookMounted' = FALSE
    /\ requests' = Abort(requests, abortController)
    /\ debounceTimeout' = NoTimer
    /\ UNCHANGED <<debounceMs, query, results, loading, error,
                   abortController, lastCall, lastExec, execs, elapsed,
                   cleared, calls, burst>>
    /\ UNCHANGED <<indexerVars, themeVars>>
    /\ UNCHANGED <<consentVars, geoVars>>
    /\ UNCHANGED barVars

SearchNext ==
    \/ SearchCall
    \/ Tick
    \/ TimerFires
    \/ Response
    \/ ResponseThrows
    \/ Clear
    \/ SearchUnmount

SearchSpec == SearchInit /\ [][SearchNext]_vars

\* a pending timer's time passes and a due timer fires
SearchFairSpec == SearchSpec /\ WF_vars(Tick) /\ WF_vars(TimerFires)

\* ======================================================== the search bar
\* components/SearchBar.tsx, on top of the hook.  A category of results
\* that is not empty holds one item.
OtherVars == <<indexerVars, themeVars, consentVars, geoVars>>

HookVars == searchVars

\* flatResults.length
FlatLen ==
    Cardinality({c \in {"scenes", "events", "posts"} : results[c] # ""})

\* handleInputChange(value)
InputChange ==
    /\ hookMounted
    /\ lastKey' = "input"
    /\ calls < MaxCalls
    /\ \E value \in Queries :
        /\ inputValue' = value
        /\ search(value)
        /\ isOpen' = ~Blank(value)
    /\ selectedIndex' = -1
    /\ UNCHANGED OtherVars

\* handleClear()
handleClear ==
    /\ inputValue' = ""
    /\ isOpen' = FALSE
    /\ selectedIndex' = -1
    /\ clear

\* the clear button, rendered while the input is not empty
ClearClick ==
    /\ hookMounted
    /\ lastKey' = "clear"
    /\ inputValue # ""
    /\ handleClear
    /\ UNCHANGED OtherVars

\* handleKeyDown: ArrowDown
ArrowDown ==
    /\ hookMounted
    /\ lastKey' = "down"
    /\ isOpen
    /\ selectedIndex' = IF selectedIndex < FlatLen - 1
                        THEN selectedIndex + 1
                        ELSE selectedIndex
    /\ UNCHANGED <<inputValue, isOpen>>
    /\ UNCHANGED <<HookVars, OtherVars>>

\* handleKeyDown: ArrowUp
ArrowUp ==
    /\ hookMounted
    /\ lastKey' = "up"
    /\ isOpen
    /\ selectedIndex' = IF selectedIndex > 0 THEN selectedIndex - 1 ELSE -1
    /\ UNCHANGED <<inputValue, isOpen>>
    /\ UNCHANGED <<HookVars, OtherVars>>

\* handleKeyDown: Enter on a highlighted result, navigateToResult
Enter ==
    /\ hookMounted
    /\ lastKey' = "enter"
    /\ isOpen
    /\ selectedIndex >= 0
    /\ selectedIndex < FlatLen
    /\ handleClear
    /\ UNCHANGED OtherVars

\* a click on a result of the open dropdown, navigateToResult
ResultClick ==
    /\ hookMounted
    /\ lastKey' = "click"
    /\ isOpen
    /\ FlatLen > 0
    /\ handleClear
    /\ UNCHANGED OtherVars

\* handleKeyDown: Escape, and handleClickOutside
Dismiss ==
    /\ hookMounted
    /\ lastKey' = "dismiss"
    /\ isOpen' = FALSE
    /\ selectedIndex' = -1
    /\ UNCHANGED inputValue
    /\ UNCHANGED <<HookVars, OtherVars>>

\* onFocus of the input
Focus ==
    /\ hookMounted
    /\ lastKey' = "focus"
    /\ inputValue # ""
    /\ ~Blank(inputValue)
    /\ isOpen' = TRUE
    /\ UNCHANGED <<inputValue, selectedIndex>>
    /\ UNCHANGED <<HookVars, OtherVars>>

BarInit == SearchInit

BarNext ==
    \/ InputChange
    \/ ClearClick
    \/ ArrowDown
    \/ ArrowUp
    \/ Enter
    \/ ResultClick
    \/ Dismiss
    \/ Focus
    \/ Tick
    \/ TimerFires
    \/ Response
    \/ ResponseThrows
    \/ SearchUnmount

SearchBarSpec == BarInit /\ [][BarNext]_vars

\* ======================================================= location consent
\* internal/scene/model.go.  A Scene or Event is reduced to the fields the
\* method reads or writes and one it must leave alone.
Points == {<<0, 0>>, <<40, -74>>}

Scenes ==
    [AllowPrecise : BOOLEAN,
     PrecisePoint : Points \cup {Nil},
     CoarseGeohash : {"dr5regw"}]

\* (s *Scene) EnforceLocationConsent and (e *Event) EnforceLocationConsent
EnforceLocationConsent_Always(s) ==
    [s EXCEPT !.PrecisePoint = Nil]

EnforceLocationConsent(s) ==
    IF ~s.AllowPrecise
    THEN [s EXCEPT !.PrecisePoint = Nil]
    ELSE s

ConsentInit ==
    /\ IndexerOff
    /\ ThemeIdle
    /\ SearchIdle
    /\ GeoIdle
    /\ scene \in Scenes
    /\ event \in Scenes
    /\ sceneOrig = scene
    /\ eventOrig = event
    /\ sceneBefore = scene
    /\ eventBefore = event
    /\ sceneCalls = 0
    /\ eventCalls = 0

SceneEnforce ==
    /\ sceneCalls < MaxEnforce
    /\ sceneBefore' = scene
    /\ scene' = EnforceLocationConsent(scene)
    /\ sceneCalls' = sceneCalls + 1
    /\ UNCHANGED <<event, sceneOrig, eventOrig, eventBefore, eventCalls>>
    /\ UNCHANGED <<indexerVars, themeVars, searchVars, geoVars>>
    /\ UNCHANGED barVars

EventEnforce ==
    /\ eventCalls < MaxEnforce
    /\ eventBefore' = event
    /\ event' = EnforceLocationConsent(event)
    /\ eventCalls' = eventCalls + 1
    /\ UNCHANGED <<scene, sceneOrig, eventOrig, sceneBefore, sceneCalls>>
    /\ UNCHANGED <<indexerVars, themeVars, searchVars, geoVars>>
    /\ UNCHANGED barVars

ConsentNext ==
    \/ SceneEnforce
    \/ EventEnforce

ConsentSpec == ConsentInit /\ [][ConsentNext]_vars

\* ================================================================ geohash
\* geo.RoundGeohash.  A string is a sequence of characters; the alphabet
\* holds valid geohash characters, upper-case letters and a letter that
\* the geohash alphabet excludes.
GeoChars == {"d", "5", "D", "a"}

\* members of validGeohashChars within GeoChars
validGeohashChars == {"d", "5"}

\* strings.ToLower, character by character
LowerChar(c) == IF c = "D" THEN "d" ELSE c

ToLower(str) == [i \in 1..Len(str) |-> LowerChar(str[i])]

RECURSIVE StringsUpTo(_)
StringsUpTo(n) ==
    IF n = 0 THEN {<<>>}
    ELSE LET shorter == StringsUpTo(n - 1)
         IN  shorter \cup {Append(str, c) : str \in shorter, c \in GeoChars}

IsPrefix(p, str) ==
    /\ Len(p) <= Len(str)
    /\ \A i \in 1..Len(p) : p[i] = str[i]

RoundGeohash_OneMore(in, prec) ==
    IF in = <<>> THEN <<>>
    ELSE IF prec < 1 THEN <<>>
    ELSE LET lower == ToLower(in)
         IN  IF \E i \in 1..Len(lower) : lower[i] \notin validGeohashChars
             THEN <<>>
             ELSE IF Len(lower) <= prec THEN lower
             ELSE SubSeq(lower, 1, prec + 1)

RoundGeohash(in, prec) ==
    IF in = <<>> THEN <<>>
    ELSE IF prec < 1 THEN <<>>
    ELSE LET lower == ToLower(in)
         IN  IF \E i \in 1..Len(lower) : lower[i] \notin validGeohashChars
             THEN <<>>
             ELSE IF Len(lower) <= prec THEN lower
             ELSE SubSeq(lower, 1, prec)

GeoInit ==
    /\ IndexerOff
    /\ ThemeIdle
    /\ SearchIdle
    /\ ConsentIdle
    /\ geoInput \in StringsUpTo(MaxGeoLen)
    /\ geoPrecision \in -1..MaxPrecision
    /\ geoOutput = <<>>
    /\ geoDone = FALSE

Round ==
    /\ ~geoDone
    /\ geoOutput' = RoundGeohash(geoInput, geoPrecision)
    /\ geoDone' = TRUE
    /\ UNCHANGED <<geoInput, geoPrecision>>
    /\ UNCHANGED <<indexerVars, themeVars, searchVars, consentVars>>
    /\ UNCHANGED barVars

GeoNext == Round

GeoSpec == GeoInit /\ [][GeoNext]_vars

\* ============================================================== claims
InHist(e) == \E i \in 1 .. Len(hist) : hist[i] = e

LastEvent == IF hist = <<>> THEN "none" ELSE hist[Len(hist)]

\* C1: whenever Run has returned, the context is done and the value
\* returned is ctx.Err(); Run never returns a dial, read or handler error.
C1_ReturnsOnlyCtxErr ==
    /\ pc = "returned" => (ctxErr # "nil" /\ result = ctxErr)
    /\ pc # "returned" => result = "none"

\* Run has returned the context's error after a handler error had ended a
\* connection.
C1_Witness ==
    /\ pc = "returned"
    /\ result = "context deadline exceeded"
    /\ InHist("handlerErr")

\* C2: once the context is done, Run eventually returns.
C2_CancelLeadsToReturn == (ctxErr # "nil") ~> (pc = "returned")

\* C3: while the context is not done, a dial failure (the driver is in its
\* backoff wait) is eventually followed by another dial attempt.
C3_RetryForever == (pc = "backoff") ~> (pc = "dialing" \/ ctxErr # "nil")

\* The driver dials again after MaxAttempts - 1 failures in a row.
C3_Witness ==
    /\ pc = "dialing"
    /\ ctxErr = "nil"
    /\ consecFails = MaxAttempts - 1

\* C4: with jitter disabled the wait after the n-th consecutive dial
\* failure (n from 0) is min(BaseDelay * 2^n, MaxDelay), computed from the
\* attempt count before the increment; the waits never decrease; base 100ms
\* and max 1600ms give 100, 200, 400, 800 ms.
C4_BackoffWithoutJitter ==
    /\ [](pc = "backoff" /\ config.JitterFactor = 0 =>
            /\ delay = Min(config.BaseDelay * 2^(consecFails - 1),
                           config.MaxDelay)
            /\ attempt = consecFails - 1
            /\ reconnectCount = attempt + 1
            /\ (config = ScenarioA /\ consecFails <= 4 =>
                   delay = <<100000, 200000, 400000, 800000>>[consecFails]))
    /\ [][pc = "dialing" /\ pc' = "backoff" /\ config.JitterFactor = 0
             => delay' >= lastWait]_vars

\* The fourth failure in a row of scenario A waits 800ms.
C4_Witness ==
    /\ pc = "backoff"
    /\ config = ScenarioA
    /\ consecFails = 4
    /\ delay = 800000

\* C5: the first dial failure after a successful dial is backed off with
\* attempt count 0 (BaseDelay before jitter), however many failures came
\* before that successful dial.
C5_ResetAfterSuccess ==
    pc = "backoff" /\ consecFails = 1 =>
        /\ attempt = 0
        /\ config.JitterFactor = 0 => delay = config.BaseDelay

\* First failure after a successful dial that itself followed a failure.
C5_Witness ==
    /\ pc = "backoff"
    /\ consecFails = 1
    /\ \E i, j \in 1 .. Len(hist) :
          i < j /\ hist[i] = "wait" /\ hist[j] = "dialOk"
    /\ attempt = 0

\* C6: a backoff wait happens only directly after a failed dial; after a
\* read error or a handler error the next driver event is the next dial
\* (or the return of Run), with no wait in between.
C6_NoBackoffAfterStream ==
    \A i \in 1 .. Len(hist) :
        /\ (hist[i] = "wait" /\ i > 1) => hist[i - 1] = "dialFail"
        /\ (hist[i] \in {"readErr", "handlerErr"} /\ i < Len(hist)) =>
               hist[i + 1] \in {"dial", "stop"}
        /\ (hist[i] = "dial" /\ i > 1 /\ hist[i - 1] # "wait") =>
               hist[i - 1] \in {"readErr", "handlerErr", "stop"}

ScenarioB == <<"dial", "dialFail", "wait", "dial", "dialOk", "handlerErr",
               "dial">>

\* Scenario B: dial failure, one wait, successful dial, handler error and
\* the third dial right after it.
C6_Witness ==
    /\ pc = "dialing"
    /\ Len(hist) >= 7
    /\ SubSeq(hist, Len(hist) - 6, Len(hist)) = ScenarioB

\* C7: when the context is cancelled during the backoff wait, Run returns
\* ctx.Err() without another dial attempt, and it does so even if the timer
\* never fires.
C7_CancelInBackoff ==
    /\ [](cancelAt = "backoff" =>
            /\ pc \in {"backoff", "loop", "cl_lock", "cl_body", "cl_flag",
                       "cl_unlock", "run_return", "returned"}
            /\ LastEvent \in {"wait", "stop"}
            /\ pc = "returned" => result = ctxErr)
    /\ (pc = "backoff" /\ ctxErr # "nil") ~> (pc = "returned")

\* Run has returned after a cancellation that came during the wait.
C7_Witness ==
    /\ cancelAt = "backoff"
    /\ pc = "returned"
    /\ result = ctxErr

\* C8 (as stated): once the context is done the handler is not invoked
\* any more.
C8_NoHandlerAfterCancel ==
    [][ctxErr # "nil" => ~(pc # "handler" /\ pc' = "handler")]_vars

\* C8 (amended): no read is started once the context is done, the handler
\* is invoked only with the message of a read in progress, and a read loop
\* that finds the context done returns at once.
C8_NoReadAfterCancel ==
    [][/\ (pc # "reading" /\ pc' = "reading") => ctxErr = "nil"
       /\ (pc # "handler" /\ pc' = "handler") => pc = "reading"
       /\ (pc = "rl_check" /\ ctxErr # "nil" /\ pc' # pc) => pc' = "loop"
      ]_vars

\* The read loop has returned on cancellation while a message was waiting
\* to be read.
C8_Witness ==
    /\ pc = "loop"
    /\ ctxErr # "nil"
    /\ LastEvent = "readLoopCancelled"
    /\ peer = "msg"

\* C9: outside the driver's critical sections isConnected is true exactly
\* when a handle is installed, and that is what IsConnected returns.
C9_NoTornState ==
    /\ mu # "driver" => (isConnected <=> conn # NoConn)
    /\ obs = "locked" => (obsVal <=> conn # NoConn)

\* IsConnected is returning true while the driver waits for the lock to
\* close the connection.
C9_Witness ==
    /\ obs = "locked"
    /\ obsVal = TRUE
    /\ pc = "cl_lock"

\* C10: the lock is never held by the driver while it is blocked in a dial,
\* a backoff wait, a read or a handler call, and a call of IsConnected
\* obtains the lock even if those operations never return.
C10_LockNotHeldWhileBlocked ==
    /\ [](pc \in Blocking => mu # "driver")
    /\ (obs = "waiting") ~> (obs = "locked")

\* IsConnected is returning while the handler is running.
C10_Witness ==
    /\ pc = "handler"
    /\ obs = "locked"
    /\ obsVal = TRUE

\* the delay before jitter, min(BaseDelay * 2^attempt, MaxDelay)
Raw == Min(config.BaseDelay * 2^attempt, config.MaxDelay)

C12_NeverAboveMax == pc = "calc_done" => delay <= config.MaxDelay

\* C12 (amended): the delay before jitter never exceeds MaxDelay, so the
\* computed delay never exceeds MaxDelay * (1 + f/2), and never exceeds
\* MaxDelay when f = 0.
C12_CappedBeforeJitter ==
    pc = "calc_done" =>
        /\ CappedBackoff(config, attempt) <= config.MaxDelay
        /\ 200 * delay <= config.MaxDelay * (200 + config.JitterFactor)
        /\ config.JitterFactor = 0 => delay <= config.MaxDelay

\* The exponential term is far above MaxDelay and the delay is at the cap.
C12_Witness ==
    /\ pc = "calc_done"
    /\ config.BaseDelay * 2^attempt > 2 * config.MaxDelay
    /\ delay >= config.MaxDelay

InClose == pc \in {"cl_lock", "cl_body", "cl_flag", "cl_unlock"}

\* C13: a handler error is treated like a read failure: after either, the
\* driver closes the connection, invokes no handler and reads nothing on
\* it, does not return the error, and is next at the loop entry (new dial,
\* or return if cancelled) with the connection released.
C13_HandlerErrLikeReadErr ==
    LastEvent \in {"handlerErr", "readErr"} =>
        /\ InClose \/ pc \in {"loop", "run_return"}
        /\ result = "none"
        /\ pc \in {"loop", "run_return"} =>
               (conn = NoConn /\ ~isConnected /\ openConns = 0)

\* After a handler error the connection is closed and the driver is at
\* the loop entry, about to dial.
C13_Witness ==
    /\ LastEvent = "handlerErr"
    /\ pc = "loop"
    /\ ctxErr = "nil"
    /\ conn = NoConn

\* C14: when Run has returned, no connection handle is installed,
\* isConnected is false and no transport connection is left open.
C14_ReleasedOnReturn ==
    pc = "returned" =>
        /\ conn = NoConn
        /\ ~isConnected
        /\ openConns = 0
        /\ peer = "none"
        /\ mu # "driver"

\* Run returned from a cancelled backoff wait (the path without close())
\* in a Run call that had been connected before.
C14_Witness ==
    /\ pc = "returned"
    /\ cancelAt = "backoff"
    /\ InHist("dialOk")

FailsInHist == Cardinality({i \in 1 .. Len(hist) : hist[i] = "dialFail"})

\* C15: the first dial failure of a Run call is backed off with attempt
\* count 0.
C15_CounterPerRun ==
    (pc = "backoff" /\ Len(hist) < HistLen /\ FailsInHist = 1) =>
        attempt = 0

\* C16: on one connection the handler gets the messages in the order the
\* transport delivers them, one per read, each at most once: every handler
\* call takes the head of the queue, which is the successor of the message
\* handled before it, and outside a handler call the client holds no
\* message (none survives a reconnect).
C16_InOrderOnce ==
    /\ [](pc # "handler" => msg = 0)
    /\ [](pc = "handler" =>
            /\ msg = lastHandled
            /\ msg \in 1 .. sent
            /\ inbox # <<>> => Head(inbox) = msg + 1)
    /\ [][(pc # "handler" /\ pc' = "handler") =>
             /\ pc = "reading"
             /\ inbox # <<>>
             /\ msg' = Head(inbox)
             /\ msg' = lastHandled + 1
             /\ inbox' = Tail(inbox)]_vars

\* The handler is running on the last message the peer sent on this
\* connection, after having handled the ones before it.
C16_Witness ==
    /\ pc = "handler"
    /\ msg = MaxMsgs
    /\ sent = MaxMsgs
    /\ inbox = <<>>

\* C17: when the context is already done at the loop entry, Run closes
\* and returns ctx.Err(); when it was done before Run was called, Run
\* returns without any dial attempt and without any handler call.
C17_CancelledAtLoopEntry ==
    /\ [](cancelAt = "before" =>
            /\ pc = "loop" \/ InClose \/ pc \in {"run_return", "returned"}
            /\ hist \in {<<>>, <<"stop">>}
            /\ msg = 0
            /\ pc = "returned" => result = ctxErr)
    /\ []((pc = "run_return" \/ (InClose /\ closeRet = "run_return")) =>
            ctxErr # "nil")
    /\ [][(pc = "loop" /\ ctxErr # "nil" /\ pc' # pc) =>
             (pc' = "cl_lock" /\ closeRet' = "run_return")]_vars
    /\ (pc = "loop" /\ ctxErr # "nil") ~> (pc = "returned")

\* Run was called with a context already done and has returned its error
\* without a single dial.
C17_Witness ==
    /\ cancelAt = "before"
    /\ pc = "returned"
    /\ hist = <<"stop">>
    /\ result = ctxErr

\* C18: a configuration that Validate rejects makes NewClient return the
\* error and no client; every client that Run executes on has a
\* configuration that passed Validate.
C18_InvalidConfigRejected ==
    /\ pc = "rejected" => (~Validate(config) /\ runs = 0)
    /\ pc \notin {"new", "rejected"} => Validate(config)

\* NewClient has returned an error for a configuration with
\* BaseDelay > MaxDelay.
C18_Witness ==
    /\ pc = "rejected"
    /\ config.BaseDelay > config.MaxDelay

\* C19: while the handler call has not returned, the driver does nothing:
\* it reads no message, starts no dial, touches neither the connection nor
\* the counter and Run does not return, also when the context is done; the
\* only step that ends the stall is the handler's return.
C19_HandlerStallsClient ==
    /\ [](pc = "handler" => result = "none")
    /\ [][pc = "handler" =>
             \/ /\ pc' = "handler"
                /\ UNCHANGED <<conn, isConnected, reconnectCount, closeRet,
                               delay, result, runs, openConns, hist, msg,
                               lastHandled>>
                /\ \/ inbox' = <<>>
                   \/ /\ Len(inbox') >= Len(inbox)
                      /\ SubSeq(inbox', 1, Len(inbox)) = inbox
             \/ pc' = "rl_check"
             \/ (pc' = "cl_lock" /\ closeRet' = "loop")]_vars

\* The handler is still running after the context was cancelled during
\* the call, with a further message waiting unread.
C19_Witness ==
    /\ pc = "handler"
    /\ cancelAt = "handler"
    /\ inbox # <<>>

\* C20: while the user has selected no theme, every system colour-scheme
\* change switches the theme of the mounted application to the new system
\* preference; once the user has selected one, system changes leave the
\* theme alone.
C20_AutoSwitchEveryChange ==
    [][(systemDark' # systemDark /\ mounted) =>
          /\ ~manual => theme' = Pref(systemDark')
          /\ manual => theme' = theme]_vars

\* C21: useSearch debounces.  In a row of search() calls, each made while
\* the timer of the previous one is still running, no API request is made
\* and no search is executed before debounceMs has elapsed since the last
\* call; then exactly one search is executed, with the query of the last
\* call, and a request is made only by an executed search.
C21_Debounce ==
    /\ [][execs' > execs =>
            /\ elapsed = debounceMs
            /\ execs = 0
            /\ lastExec' = lastCall]_vars
    /\ [][Len(requests') > Len(requests) =>
            /\ execs' > execs
            /\ requests'[Len(requests')].query = lastCall]_vars
    /\ \A n \in 1..MaxCalls :
        (calls = n /\ debounceTimeout # NoTimer) ~>
            \/ (calls = n /\ execs = 1 /\ lastExec = lastCall)
            \/ calls > n
            \/ cleared
            \/ ~hookMounted

\* a row of two or more calls ended with one executed search and a request
C21_Witness ==
    /\ burst >= 2
    /\ execs = 1
    /\ lastExec = lastCall
    /\ requests # <<>>
    /\ requests[Len(requests)].query = lastCall

\* C22: the response of a request that was cancelled (its abort signal is
\* set: by a newer executed search, by clear() or by unmount) changes none
\* of results, loading and error, in whatever order responses arrive.
C22_CancelledResponseIgnored ==
    [][\A i \in 1..Len(requests) :
          (requests[i].aborted /\ ~requests[i].settled
             /\ requests'[i].settled)
          => UNCHANGED <<results, loading, error>>]_vars

\* the response of a cancelled request arrived before the one of the
\* request that replaced it
C22_Witness ==
    \E i \in 1..Len(requests) :
        /\ requests[i].aborted
        /\ requests[i].settled
        /\ i < Len(requests)
        /\ ~requests[Len(requests)].settled
        /\ ~requests[Len(requests)].aborted
        /\ loading

\* C23: after clear(), until the next search() call, every request made is
\* aborted, no timer is pending, no search is executed and no request is
\* made, results are empty, loading is false and error is null.
C23_ClearCancels ==
    /\ [](cleared =>
            /\ \A i \in 1..Len(requests) : requests[i].aborted
            /\ debounceTimeout = NoTimer
            /\ results = EmptyResults
            /\ ~loading
            /\ error = "null")
    /\ [][(cleared /\ cleared') =>
            /\ execs' = execs
            /\ Len(requests') = Len(requests)]_vars

\* clear() came while a request was in flight and a later search() was
\* pending; the response arrived afterwards
C23_Witness ==
    /\ cleared
    /\ lastCall # lastExec
    /\ lastExec # "none"
    /\ \E i \in 1..Len(requests) : requests[i].settled /\ requests[i].aborted

\* C24: after EnforceLocationConsent has returned, a Scene or Event with
\* AllowPrecise = false has no PrecisePoint and one with AllowPrecise =
\* true has the PrecisePoint it was given; a second call changes nothing.
C24_ConsentEnforced ==
    \A x \in {[now |-> scene, orig |-> sceneOrig, before |-> sceneBefore,
               n |-> sceneCalls],
              [now |-> event, orig |-> eventOrig, before |-> eventBefore,
               n |-> eventCalls]} :
        x.n >= 1 =>
            /\ ~x.now.AllowPrecise => x.now.PrecisePoint = Nil
            /\ x.now.AllowPrecise =>
                   x.now.PrecisePoint = x.orig.PrecisePoint
            /\ x.n >= 2 => x.now = x.before

\* a Scene lost the point it had no consent for, an Event with consent
\* kept its point, the zero point; both went through a second call
C24_Witness ==
    /\ sceneCalls = 2
    /\ ~sceneOrig.AllowPrecise
    /\ sceneOrig.PrecisePoint = <<40, -74>>
    /\ scene.PrecisePoint = Nil
    /\ eventCalls = 2
    /\ event.AllowPrecise
    /\ event.PrecisePoint = <<0, 0>>

ValidGeohash(str) ==
    /\ str # <<>>
    /\ \A i \in 1..Len(str) : str[i] \in validGeohashChars

\* C25: for a non-empty input of valid geohash characters and a precision
\* of at least 1, RoundGeohash returns the input unchanged when it is
\* shorter than precision, else a prefix of the input of at most precision
\* characters.
C25_RoundIsPrefix ==
    (geoDone /\ ValidGeohash(geoInput) /\ geoPrecision >= 1) =>
        IF Len(geoInput) < geoPrecision
        THEN geoOutput = geoInput
        ELSE /\ Len(geoOutput) <= geoPrecision
             /\ IsPrefix(geoOutput, geoInput)

\* a valid input longer than the precision was truncated
C25_Witness ==
    /\ geoDone
    /\ ValidGeohash(geoInput)
    /\ Len(geoInput) = 3
    /\ geoPrecision = 2
    /\ geoOutput = SubSeq(geoInput, 1, 2)

\* C26: the Attempt Counter is the number of consecutive dial failures
\* since the most recent successful dial, or since the client was made if
\* there was none.  It changes only by a dial failure, which adds exactly
\* one, and by the reset that follows a successful dial and precedes the
\* Read Loop; it is 0 while the Driver is streaming and until the next
\* dial; read errors, handler errors and closing leave it alone.
C26_CounterIsConsecutiveFailures ==
    /\ [](pc \notin {"c_lock", "c_conn", "c_flag", "c_unlock", "reset"}
            => reconnectCount = consecFails)
    /\ []((pc \in {"rl_check", "reading", "handler"}
             \/ (InClose /\ closeRet = "loop"))
            => reconnectCount = 0)
    /\ [][reconnectCount' # reconnectCount =>
            \/ /\ pc = "dialing"
               /\ pc' = "backoff"
               /\ reconnectCount' = reconnectCount + 1
            \/ /\ pc = "reset"
               /\ pc' = "rl_check"
               /\ reconnectCount' = 0]_vars
    /\ [][(pc = "reset" /\ pc' # "reset") => reconnectCount' = 0]_vars
    /\ [][(pc = "reading" \/ pc = "handler") =>
            reconnectCount' = reconnectCount]_vars

\* the Driver streams with the counter at 0 after a failed dial, a
\* successful one, a handler error and a second successful dial
C26_Witness ==
    /\ pc = "reading"
    /\ reconnectCount = 0
    /\ \E i, j, k \in 1 .. Len(hist) :
          /\ i < j
          /\ j < k
          /\ hist[i] = "dialFail"
          /\ hist[j] = "handlerErr"
          /\ hist[k] = "dialOk"

\* C27: a failed connect installs nothing: the step from the dial to the
\* backoff wait leaves the handle, the connected flag, the lock and the
\* transport untouched, the handle being absent and the flag false.
C27_FailedConnectInstallsNothing ==
    /\ [][(pc = "dialing" /\ pc' = "backoff") =>
            /\ UNCHANGED <<conn, isConnected, mu, openConns>>
            /\ conn = NoConn
            /\ ~isConnected]_vars
    /\ [](pc = "backoff" =>
            /\ conn = NoConn
            /\ ~isConnected
            /\ openConns = 0
            /\ mu # "driver")

\* a dial failed after an earlier connection had been installed and closed
C27_Witness ==
    /\ pc = "backoff"
    /\ InHist("dialOk")
    /\ conn = NoConn
    /\ ~isConnected

\* C28: close() ends with no handle and connected = false whether or not
\* closing the transport reported an error; when the client is already
\* disconnected close() changes neither handle nor flag and closes no
\* transport.
C28_CloseIdempotent ==
    /\ [](pc = "cl_unlock" => (conn = NoConn /\ ~isConnected))
    /\ []((pc \in {"cl_lock", "cl_body"} /\ conn = NoConn) => ~isConnected)
    /\ [][(InClose /\ conn = NoConn /\ ~isConnected) =>
            UNCHANGED <<conn, isConnected, openConns, closeErr>>]_vars
    /\ [](openConns >= 0)

\* a second close() ends, after a first one whose transport close reported
\* an error
C28_Witness ==
    /\ pc = "cl_unlock"
    /\ closeRet = "run_return"
    /\ closeErr
    /\ LastEvent \in {"readErr", "handlerErr"}
    /\ conn = NoConn
    /\ ~isConnected

\* C29: a failed read (the one way a read ends other than with a message,
\* which goes to the handler or, without a handler, is dropped) makes the
\* Read Loop close the connection and return to the Driver; the handler is
\* not invoked for that read and Run does not return the failure.
C29_ReadErrorClosesAndReturns ==
    /\ [][(pc = "reading" /\ pc' \notin {"reading", "handler", "rl_check"}) =>
            /\ pc' = "cl_lock"
            /\ closeRet' = "loop"
            /\ hist' = Push(hist, "readErr")
            /\ UNCHANGED <<msg, lastHandled, result, ctxErr>>]_vars
    /\ [](LastEvent = "readErr" =>
            /\ \/ InClose
               \/ pc \in {"loop", "run_return"}
            /\ msg = 0
            /\ result = "none")
    /\ []((LastEvent = "readErr" /\ pc = "loop") =>
            (conn = NoConn /\ ~isConnected))
    /\ [](result \notin {"none", "nil"} => result = ctxErr)

\* the Driver dials again right after a read error
C29_Witness ==
    /\ pc = "dialing"
    /\ Len(hist) >= 2
    /\ hist[Len(hist) - 1] = "readErr"
    /\ result = "none"

\* C30: when the Driver starts a dial no handle is installed and no
\* transport is open; a handle is installed only over an absent one, and
\* at most one transport connection is open.
C30_OneConnection ==
    /\ [](pc = "dialing" =>
            /\ conn = NoConn
            /\ ~isConnected
            /\ openConns = 0)
    /\ [][(conn' # conn /\ conn' # NoConn) => conn = NoConn]_vars
    /\ [](openConns \in {0, 1})

\* the Driver dials for the third time, two connections having been
\* opened and closed
C30_Witness ==
    /\ pc = "dialing"
    /\ openConns = 0
    /\ \E i, j \in 1 .. Len(hist) :
          i < j /\ hist[i] = "dialOk" /\ hist[j] = "dialOk"
\* the states of the Driver between the installation of a connection and
\* the close that ends it, the lock not being held by the Driver
Connected ==
    \/ pc \in {"reset", "rl_check", "reading", "handler"}
    \/ pc = "cl_lock"
    \/ (pc = "loop" /\ LastEvent = "readLoopCancelled")

\* C31: a call of IsConnected() that reads the flag while the Driver is
\* dialing or waiting in backoff returns false, and one that returns true
\* read the flag between a successful dial and the close that ends that
\* connection, the handle installed and the transport open.
C31_IsConnectedFollowsConnection ==
    /\ [](pc \in {"dialing", "backoff"} => ~isConnected)
    /\ [][(obs = "waiting" /\ obs' = "locked") =>
            /\ obsVal' = isConnected
            /\ pc \in {"dialing", "backoff"} => ~obsVal'
            /\ obsVal' => /\ Connected
                          /\ conn = Handle
                          /\ openConns = 1
                          /\ InHist("dialOk")]_vars
    /\ []((isConnected /\ mu # "driver") => Connected)

\* IsConnected() is returning false during a backoff wait that follows an
\* earlier connection
C31_Witness ==
    /\ obs = "locked"
    /\ ~obsVal
    /\ pc = "backoff"
    /\ InHist("dialOk")

\* C32: at every ReadMessage call the handle is installed: the Read Loop
\* is entered only after a successful connect and left at every close.
C32_ReadsInstalledHandle ==
    /\ [](pc \in {"rl_check", "reading", "handler"} =>
            (conn = Handle /\ openConns = 1))
    /\ [][(pc # "reading" /\ pc' = "reading") =>
            (pc = "rl_check" /\ conn = Handle)]_vars
    /\ [][(pc # "rl_check" /\ pc' = "rl_check") =>
            pc \in {"reset", "reading", "handler"}]_vars
    /\ [][(InClose /\ ~InClose') => pc' \in {"loop", "run_return"}]_vars

\* a read starts on the connection made after a handler error had closed
\* the previous one
C32_Witness ==
    /\ pc = "reading"
    /\ conn = Handle
    /\ \E i, j \in 1 .. Len(hist) :
          i < j /\ hist[i] = "handlerErr" /\ hist[j] = "dialOk"

\* C33: at the call of the handler, and until it returns, the handle is
\* installed and the connected flag is true, so that IsConnected() returns
\* true.
C33_HandlerWhileConnected ==
    /\ [](pc = "handler" => (conn = Handle /\ isConnected))
    /\ []((pc = "handler" /\ obs = "locked") => obsVal)
    /\ [][(pc # "handler" /\ pc' = "handler") =>
            (conn = Handle /\ isConnected /\ mu # "driver")]_vars

\* IsConnected() is returning true while the handler runs
C33_Witness ==
    /\ pc = "handler"
    /\ obs = "locked"
    /\ obsVal
    /\ msg > 0

\* C34: without a handler every message read is discarded and the Read
\* Loop goes on to its next check; the handler is never entered, no
\* handler error occurs, and the Read Loop is left only by a failed read
\* or by a cancellation seen at the check before a read.
C34_NilHandlerDiscards ==
    /\ [](~hasHandler =>
            /\ pc # "handler"
            /\ msg = 0
            /\ lastHandled = 0
            /\ ~InHist("handlerErr"))
    /\ [][(~hasHandler /\ pc = "reading" /\ pc' # "reading") =>
            \/ /\ inbox # <<>>
               /\ inbox' = Tail(inbox)
               /\ pc' = "rl_check"
               /\ UNCHANGED <<conn, isConnected, hist>>
            \/ /\ peer = "closed"
               /\ pc' = "cl_lock"
               /\ hist' = Push(hist, "readErr")]_vars
    /\ [][(~hasHandler /\ pc = "rl_check" /\ pc' # "rl_check") =>
            \/ (ctxErr = "nil" /\ pc' = "reading")
            \/ (ctxErr # "nil" /\ pc' = "loop")]_vars

\* every message the peer sent has been read and discarded and the Read
\* Loop is reading again
C34_Witness ==
    /\ ~hasHandler
    /\ pc = "reading"
    /\ sent = MaxMsgs
    /\ inbox = <<>>
\* C36: after the debounced execution of a blank query, and until another
\* query is executed, results are empty, also when the response of an
\* earlier search arrives; the execution itself makes no request.
C36_BlankStaysEmpty ==
    (lastExec # "none" /\ Blank(lastExec)) => results = EmptyResults

NotAborted == {i \in 1..Len(requests) : ~requests[i].aborted}

\* C37: at most one request is not aborted, the one of the last executed
\* non-blank search; a search that makes a request has aborted every
\* request made before.
C37_OneLiveRequest ==
    /\ [](Cardinality(NotAborted) <= 1)
    /\ [](NotAborted \subseteq {abortController})
    /\ [][Len(requests') > Len(requests) =>
            /\ abortController' = Len(requests')
            /\ \A i \in 1..Len(requests) : requests'[i].aborted]_vars

\* a second search was executed while the request of the first was in
\* flight
C37_Witness ==
    /\ Len(requests) = 2
    /\ requests[1].aborted
    /\ ~requests[1].settled
    /\ ~requests[2].aborted

\* C38: selectedIndex is -1 or an index of the flattened results.
C38_SelectedIndexValid ==
    /\ -1 <= selectedIndex
    /\ selectedIndex <= FlatLen - 1
\* C35: without jitter, once BaseDelay * 2^n has reached MaxDelay every
\* dial failure waits exactly MaxDelay; the delay is never negative and
\* never below the delay before it.
C35_CappedForever ==
    consecFails > 0 =>
        /\ delay >= 0
        /\ delay >= lastWait
        /\ (config.BaseDelay * Pow2(attempt) >= config.MaxDelay
                => delay = config.MaxDelay)
====
